---------------------------- MODULE Spec2Model ----------------------------
(***************************************************************************)
(* A model of the heightmap operators of the PolyFEM Blender add-on:       *)
(*   polyfem/operators/heightmap.py          ApplyHeightmapOperator        *)
(*   physics_export/operators/heightmap.py   ApplyHeightmapOperator        *)
(*                                                                         *)
(* Reals are modelled in fixed point: a height, an amplitude or a kernel   *)
(* parameter h stands for the real h / FP.  Vertex coordinates are         *)
(* integers counted in 1/unit of a Blender unit, so that the vertices a    *)
(* subdivision creates sit at exact positions.                             *)
(***************************************************************************)
EXTENDS Integers, Sequences, FiniteSets, TLC

(***************************************************************************)
(* Bounds of the model.                                                    *)
(***************************************************************************)
\* settings.resolution is drawn from 1..MaxRes and from HighResolutions
MaxRes == 2
\* the displacement step on its own works on heightmaps of 2 x 2 up to
\* MaxGrid x MaxGrid
MaxGrid == 5
\* the grid reconstruction on its own works on grid_cuts in 1..MaxCuts
MaxCuts == 3
\* generate_heightmap on its own is called with sizes from -1 to MaxSize
MaxSize == 4
\* determine_subdivisions on its own is called with the variabilities
\* 0, 0.05, ... up to MaxVar * 0.05 and with base_subdivisions in 1..MaxBase
MaxVar == 40
MaxBase == 3
\* the executes of the simulation operator that are followed, and those of
\* them that start a worker thread
MaxExecs == 2
MaxRuns == 2
\* the VTU files of a project directory
MaxFiles == 2
\* the JSON operator works on a scene of MaxObjects mesh objects
MaxObjects == 2

(***************************************************************************)
(* Constants of the program.                                               *)
(***************************************************************************)
max_cuts_per_edge == 20
\* tolerance = 1e-2 of get_subdivided_vertices, as the fraction 1 / ToleranceDen
ToleranceDen == 100
\* tolerance = 1e-5 of is_face_planar, as 1 / (PlanarTolA * PlanarTolB)
PlanarTolA == 1000
PlanarTolB == 100

\* the fixed-point scale: the integer h stands for the real h / FP
FP == 10 * 100
PiFP == (355 * FP) \div 113
TwoPiFP == (710 * FP) \div 113
HalfPiFP == (355 * FP) \div 226

(***************************************************************************)
(* Arithmetic.                                                             *)
(***************************************************************************)
\* "x = v; ... x ..." of the code: the value v, bound once to the name the
\* LAMBDA gives it
With(v, F(_)) == F(v)

Abs(a) == IF a < 0 THEN -a ELSE a
Sign(a) == IF a < 0 THEN -1 ELSE IF a > 0 THEN 1 ELSE 0
Max(a, b) == IF a >= b THEN a ELSE b
Min(a, b) == IF a <= b THEN a ELSE b
\* division rounding toward zero (b > 0)
Quot(a, b) == IF a >= 0 THEN a \div b ELSE -((-a) \div b)
\* a * b for two fixed-point numbers
MulFP(a, b) == Quot(a * b, FP)

RECURSIVE ISqrtFrom(_, _, _)
ISqrtFrom(n, lo, hi) ==
    IF lo >= hi THEN lo
    ELSE LET mid == (lo + hi + 1) \div 2
         IN IF mid * mid <= n THEN ISqrtFrom(n, mid, hi)
                              ELSE ISqrtFrom(n, lo, mid - 1)
\* floor of the square root of n >= 0
ISqrt(n) == ISqrtFrom(n, 0, Min(n, 46340))

\* sin r for 0 <= r <= pi/2 (r, result in fixed point), by its Taylor series
SinTaylor(r) ==
    With(MulFP(MulFP(r, r), r) \div 6, LAMBDA t3 :
    With(MulFP(MulFP(t3, r), r) \div 20, LAMBDA t5 :
    With(MulFP(MulFP(t5, r), r) \div 42, LAMBDA t7 :
    With(MulFP(MulFP(t7, r), r) \div 72, LAMBDA t9 :
      r - t3 + t5 - t7 + t9))))

\* np.sin(a) for a fixed-point angle a in radians
SinFP(a) ==
    With(a % TwoPiFP, LAMBDA r :
      (IF r <= PiFP THEN 1 ELSE -1)
        * SinTaylor(IF r <= HalfPiFP THEN r
                    ELSE IF r <= PiFP THEN PiFP - r
                    ELSE IF r <= PiFP + HalfPiFP THEN r - PiFP
                    ELSE TwoPiFP - r))

\* np.cos(a)
CosFP(a) == SinFP(a + HalfPiFP)

\* np.exp(-t) for a fixed-point t >= 0
ExpNegFP(t) ==
    IF t >= 8 * FP THEN 0
    ELSE With(t \div 8, LAMBDA s :
         With(MulFP(s, s) \div 2, LAMBDA p2 :
         With(MulFP(p2, s) \div 3, LAMBDA p3 :
         With(FP - s + p2 - p3 + (MulFP(p3, s) \div 4), LAMBDA e1 :
         With(MulFP(e1, e1), LAMBDA e2 :
         With(MulFP(e2, e2), LAMBDA e4 : MulFP(e4, e4)))))))

\* np.radians(deg) for a whole number of degrees
Radians(deg) == (deg * PiFP) \div 180

\* s[lo] + ... + s[hi], halving the range
RECURSIVE SumRange(_, _, _)
SumRange(s, lo, hi) ==
    IF lo > hi THEN 0
    ELSE IF lo = hi THEN s[lo]
    ELSE LET mid == (lo + hi) \div 2
         IN SumRange(s, lo, mid) + SumRange(s, mid + 1, hi)
SumSeq(s, k) == SumRange(s, 1, k)

\* A faulty variant of Flatten, for comparison: Fortran order, the first
\* index runs fastest.
FlattenColumns(rows) ==
    IF Len(rows) = 0 THEN << >>
    ELSE [k \in 1..(Len(rows) * Len(rows[1])) |->
             rows[((k - 1) % Len(rows)) + 1][((k - 1) \div Len(rows)) + 1]]

RECURSIVE FlattenFrom(_, _)
FlattenFrom(rows, k) ==
    IF k > Len(rows) THEN << >> ELSE rows[k] \o FlattenFrom(rows, k + 1)
\* numpy's flatten() of a two-dimensional array, kept as a sequence of rows:
\* C order, the second index runs fastest
Flatten(rows) == FlattenFrom(rows, 1)

(***************************************************************************)
(* Noise kernels (polyfem/operators/heightmap.py).  x, y and the values    *)
(* are fixed point.                                                        *)
(***************************************************************************)
NoiseTypes == {"FBM", "PERLIN", "SINE", "SQUARE", "GABOR"}

\* the default values of the kernels' keyword parameters
KernelDefaults ==
    [H |-> FP \div 2, lacunarity |-> 2 * FP, octaves |-> 4,
     orientation |-> 0, bandwidth |-> FP, power_spectrum |-> FP]

\* mathutils.noise.noise(position): a host function; any fixed deterministic
\* function of the position with values in [-1, 1] stands for it
noise_noise(x, y, z) == ((37 * x + 91 * y + 53 * z + 17) % (2 * FP + 1)) - FP

\* mathutils.noise.fractal(position, H, lacunarity, octaves): a host function
noise_fractal(x, y, z, H, lacunarity, octaves) ==
    ((37 * x + 91 * y + 53 * z + 3 * H + 7 * lacunarity + 131 * octaves)
        % (2 * FP + 1)) - FP

fbm_noise(x, y, z, H, lacunarity, octaves) ==
    noise_fractal(x, y, z, H, lacunarity, octaves)

perlin_noise(x, y, z) == noise_noise(x, y, z)

sine_wave(x, y, z) == SinFP(10 * x)

square_wave(x, y, z) == Sign(SinFP(10 * x)) * FP

gabor_noise(x, y, z, orientation, bandwidth, power_spectrum) ==
    With(<<CosFP(orientation), SinFP(orientation)>>, LAMBDA cs :
      LET x_rot == MulFP(x, cs[1]) + MulFP(y, cs[2])
          y_rot == MulFP(-x, cs[2]) + MulFP(y, cs[1])
          carrier == CosFP(MulFP(MulFP(2 * PiFP, power_spectrum), x_rot))
          envelope == ExpNegFP(Quot(MulFP(y_rot, y_rot) * FP,
                                    MulFP(bandwidth, bandwidth)) \div 2)
      IN MulFP(carrier, envelope))

\* The keyword parameters a kernel function takes.
KernelParams(func) ==
    CASE func = "fbm_noise" -> {"H", "lacunarity", "octaves"}
      [] func = "gabor_noise" -> {"orientation", "bandwidth", "power_spectrum"}
      [] OTHER -> {}

\* What a kernel called with the keyword arguments kwargs works with: the
\* argument where one is passed, the default of its signature otherwise.
ReceivedParams(func, kwargs) ==
    [p \in KernelParams(func) |->
        IF p \in DOMAIN kwargs THEN kwargs[p] ELSE KernelDefaults[p]]

\* noise_function(x, y, **kwargs)
CallKernel(func, x, y, kwargs) ==
    LET a == ReceivedParams(func, kwargs)
    IN CASE func = "fbm_noise" ->
              fbm_noise(x, y, 0, a["H"], a["lacunarity"], a["octaves"])
         [] func = "perlin_noise" -> perlin_noise(x, y, 0)
         [] func = "sine_wave" -> sine_wave(x, y, 0)
         [] func = "square_wave" -> square_wave(x, y, 0)
         [] func = "gabor_noise" ->
              gabor_noise(x, y, 0, a["orientation"], a["bandwidth"],
                          a["power_spectrum"])


(***************************************************************************)
(* Heightmap generation (polyfem/operators/heightmap.py).  A heightmap is  *)
(* a sequence of size_x rows of size_y values: heightmap[i + 1][j + 1] is  *)
(* numpy's heightmap[i, j].                                                *)
(***************************************************************************)
EmptyParams == [p \in {} |-> 0]

\* np.linspace(0, 1, size)
Linspace(size) ==
    [k \in 1..size |-> IF size = 1 THEN 0 ELSE ((k - 1) * FP) \div (size - 1)]

MapGrid(heightmap, F(_)) ==
    [i \in DOMAIN heightmap |-> [j \in DOMAIN heightmap[i] |-> F(heightmap[i][j])]]

\* np.mean(heightmap)
Mean(flat) == Quot(SumSeq(flat, Len(flat)), Len(flat))

\* np.std(heightmap)
StdDev(flat, mean) ==
    ISqrt(SumSeq([k \in 1..Len(flat) |-> (flat[k] - mean) * (flat[k] - mean)],
                 Len(flat)) \div Len(flat))

\* A faulty variant of normalize_heightmap, for comparison: a grid without
\* any spread is handed back as it came.
normalize_heightmap_unshifted(heightmap) ==
    With(Flatten(heightmap), LAMBDA flat :
    With(Mean(flat), LAMBDA mean :
    With(StdDev(flat, mean), LAMBDA std_dev :
      IF std_dev = 0
      THEN heightmap
      ELSE MapGrid(heightmap, LAMBDA h : Quot((h - mean) * FP, 3 * std_dev)))))

\* A faulty variant of normalize_heightmap, for comparison: the values come
\* back as one row.
normalize_heightmap_flat(heightmap) ==
    With(Flatten(heightmap), LAMBDA flat :
    With(Mean(flat), LAMBDA mean :
    With(StdDev(flat, mean), LAMBDA std_dev :
      IF std_dev = 0
      THEN <<[k \in 1..Len(flat) |-> flat[k] - mean]>>
      ELSE <<[k \in 1..Len(flat) |-> Quot((flat[k] - mean) * FP, 3 * std_dev)]>>)))

normalize_heightmap(heightmap) ==
    With(Flatten(heightmap), LAMBDA flat :
    With(Mean(flat), LAMBDA mean :
    With(StdDev(flat, mean), LAMBDA std_dev :
      IF std_dev = 0
      THEN MapGrid(heightmap, LAMBDA h : h - mean)
      ELSE MapGrid(heightmap, LAMBDA h : Quot((h - mean) * FP, 3 * std_dev)))))

\* A faulty variant of get_noise_function, for comparison: a tag that is none
\* of the five falls back to Perlin noise.
get_noise_function_default(settings) ==
    CASE settings.noise_type = "FBM" ->
           [func |-> "fbm_noise",
            params |-> [H |-> settings.H, lacunarity |-> settings.lacunarity,
                        octaves |-> settings.octaves]]
      [] settings.noise_type = "SINE" ->
           [func |-> "sine_wave", params |-> EmptyParams]
      [] settings.noise_type = "SQUARE" ->
           [func |-> "square_wave", params |-> EmptyParams]
      [] settings.noise_type = "GABOR" ->
           [func |-> "gabor_noise",
            params |-> [orientation |-> Radians(settings.orientation),
                        bandwidth |-> settings.bandwidth,
                        power_spectrum |-> settings.power_spectrum]]
      [] OTHER -> [func |-> "perlin_noise", params |-> EmptyParams]

get_noise_function(settings) ==
    CASE settings.noise_type = "FBM" ->
           [func |-> "fbm_noise",
            params |-> [H |-> settings.H, lacunarity |-> settings.lacunarity,
                        octaves |-> settings.octaves]]
      [] settings.noise_type = "PERLIN" ->
           [func |-> "perlin_noise", params |-> EmptyParams]
      [] settings.noise_type = "SINE" ->
           [func |-> "sine_wave", params |-> EmptyParams]
      [] settings.noise_type = "SQUARE" ->
           [func |-> "square_wave", params |-> EmptyParams]
      [] settings.noise_type = "GABOR" ->
           [func |-> "gabor_noise",
            params |-> [orientation |-> Radians(settings.orientation),
                        bandwidth |-> settings.bandwidth,
                        power_spectrum |-> settings.power_spectrum]]
      [] OTHER -> [func |-> "None", params |-> EmptyParams]

\* The keyword arguments generate_heightmap hands to the kernel: it calls
\* vectorized_noise_func(xv, yv) and leaves **noise_params behind.
forwarded_kwargs(noise_params) == EmptyParams

\* [raised |-> TRUE] stands for the exception numpy raises for an empty grid.
generate_heightmap(size_x, size_y, noise_function, amplitude, noise_params) ==
    IF size_x < 1 \/ size_y < 1 THEN [raised |-> TRUE, heightmap |-> << >>]
    ELSE LET x_vals == Linspace(size_x)
             y_vals == Linspace(size_y)
             kwargs == forwarded_kwargs(noise_params)
             raw == [i \in 1..size_x |-> [j \in 1..size_y |->
                        CallKernel(noise_function, x_vals[i], y_vals[j], kwargs)]]
             Amp(h) == MulFP(h, amplitude)
         IN [raised |-> FALSE,
             heightmap |-> MapGrid(normalize_heightmap(raw), Amp)]

(***************************************************************************)
(* Vectors and the mesh.  A vertex is its place in bm.verts (1, 2, ...);   *)
(* co[k] is its position, an integer vector counted in 1/unit.             *)
(***************************************************************************)
VSub(a, b) == <<a[1] - b[1], a[2] - b[2], a[3] - b[3]>>
VAdd(a, b) == <<a[1] + b[1], a[2] + b[2], a[3] + b[3]>>
VScale(a, k) == <<a[1] * k, a[2] * k, a[3] * k>>
Dot(a, b) == a[1] * b[1] + a[2] * b[2] + a[3] * b[3]
Cross(a, b) == <<a[2] * b[3] - a[3] * b[2],
                 a[3] * b[1] - a[1] * b[3],
                 a[1] * b[2] - a[2] * b[1]>>
Zero3 == <<0, 0, 0>>

RECURSIVE Gcd(_, _)
Gcd(a, b) == IF b = 0 THEN a ELSE Gcd(b, a % b)

\* The direction of a vector: the shortest integer vector that points the
\* same way.  normalized() divides by the length instead; every use below
\* depends on the direction alone, or carries the length along.
Direction(a) ==
    With(Gcd(Gcd(Abs(a[1]), Abs(a[2])), Abs(a[3])), LAMBDA g :
      IF g = 0 THEN Zero3 ELSE <<Quot(a[1], g), Quot(a[2], g), Quot(a[3], g)>>)

\* The unit vector of a direction, in fixed point.
UnitFP(d) ==
    With(ISqrt(Dot(d, d) * FP * FP), LAMBDA len :
      IF len = 0 THEN Zero3
      ELSE <<Quot(d[1] * FP * FP, len), Quot(d[2] * FP * FP, len),
             Quot(d[3] * FP * FP, len)>>)

RECURSIVE SumCo(_, _, _)
SumCo(co, loop, k) ==
    IF k = 0 THEN Zero3 ELSE VAdd(co[loop[k]], SumCo(co, loop, k - 1))

\* BMFace.normal, as a direction: Blender keeps the normal of a quad as the
\* cross product of its diagonals, of a triangle as that of two edges.
face_normal(co, loop) ==
    IF Len(loop) = 4
    THEN Direction(Cross(VSub(co[loop[1]], co[loop[3]]),
                         VSub(co[loop[2]], co[loop[4]])))
    ELSE Direction(Cross(VSub(co[loop[2]], co[loop[1]]),
                         VSub(co[loop[3]], co[loop[1]])))

\* n * (p - face.calc_center_median()) for a face of n vertices
FromCentre(co, loop, p) == VSub(VScale(p, Len(loop)), SumCo(co, loop, Len(loop)))

\* abs(normal.dot(vec)) > tolerance, with normal = N / |N|, vec = d / (n * unit)
\* and tolerance = 1 / (PlanarTolA * PlanarTolB)
is_face_planar(co, unit, loop) ==
    With(face_normal(co, loop), LAMBDA N :
    With(((Len(loop) * Len(loop) * unit * unit * Dot(N, N))
             \div (PlanarTolA * PlanarTolA)) \div (PlanarTolB * PlanarTolB),
         LAMBDA bound :
      \A k \in 1..Len(loop) :
         With(Dot(N, FromCentre(co, loop, co[loop[k]])), LAMBDA off :
           ~(off * off > bound))))

(***************************************************************************)
(* bmesh.ops.subdivide_edges(bm, edges=face.edges, cuts=cuts,              *)
(* use_grid_fill=True): a host function.  The quad becomes a grid of segs  *)
(* by segs cells; the new vertices follow the old ones in bm.verts, the    *)
(* cuts of the four edges first, then the inner vertices.  Coordinates are *)
(* rescaled by segs so that the new positions are whole numbers.           *)
(***************************************************************************)
\* the grid places (a, b) of the new vertices, in the order of their creation
NewPlaces(segs) ==
    LET m == segs - 1
    IN [k \in 1..m |-> <<k, 0>>] \o [k \in 1..m |-> <<segs, k>>]
       \o [k \in 1..m |-> <<segs - k, segs>>] \o [k \in 1..m |-> <<0, segs - k>>]
       \o [k \in 1..(m * m) |-> <<1 + ((k - 1) \div m), 1 + ((k - 1) % m)>>]

\* the position of grid place (a, b): the corners interpolated
GridPoint(c, segs, a, b) ==
    With(VAdd(VSub(c[1], c[2]), VSub(c[3], c[4])), LAMBDA twist :
      VAdd(VAdd(VScale(c[1], segs), VScale(VSub(c[2], c[1]), a)),
           VAdd(VScale(VSub(c[4], c[1]), b),
                <<Quot(a * b * twist[1], segs), Quot(a * b * twist[2], segs),
                  Quot(a * b * twist[3], segs)>>)))

\* the cuts of the edges of a face that is no quad: edge e runs from corner e
\* to the next one
EdgeCuts(c, segs) ==
    LET n == Len(c)
        m == segs - 1
    IN [k \in 1..(n * m) |->
          LET e == 1 + ((k - 1) \div m)
              a == 1 + ((k - 1) % m)
          IN VAdd(VScale(c[e], segs), VScale(VSub(c[1 + (e % n)], c[e]), a))]

\* the positions after the subdivision
subdivide_edges(co, loop, segs) ==
    With([k \in 1..Len(loop) |-> co[loop[k]]], LAMBDA c :
      [k \in 1..Len(co) |-> VScale(co[k], segs)]
      \o (IF Len(loop) = 4
          THEN With(NewPlaces(segs), LAMBDA places :
                 [k \in 1..Len(places) |->
                    GridPoint(c, segs, places[k][1], places[k][2])])
          ELSE EdgeCuts(c, segs)))

\* the vertex bm.verts holds at grid place (a, b) after the subdivision
PlaceVertex(nOld, loop, segs, a, b) ==
    IF a = 0 /\ b = 0 THEN loop[1]
    ELSE IF a = segs /\ b = 0 THEN loop[2]
    ELSE IF a = segs /\ b = segs THEN loop[3]
    ELSE IF a = 0 /\ b = segs THEN loop[4]
    ELSE With(NewPlaces(segs), LAMBDA places :
           nOld + (CHOOSE k \in 1..Len(places) : places[k] = <<a, b>>))

\* face.verts after the subdivision.  Either the handle still names the four
\* corners of the quad, or it names the cell the quad was cut down to, the
\* one at vertex 0.
FaceAfter(nOld, loop, segs, hostFace) ==
    IF hostFace = "quad" THEN loop
    ELSE <<loop[1], PlaceVertex(nOld, loop, segs, 1, 0),
           PlaceVertex(nOld, loop, segs, 1, 1), PlaceVertex(nOld, loop, segs, 0, 1)>>

(***************************************************************************)
(* Grid reconstruction (polyfem/operators/heightmap.py).                   *)
(***************************************************************************)
\* the epsilon of "-0.01 <= u <= 1.01", as 1 / SlopDen
SlopDen == 100

\* int(round(num / den)) for den > 0: Python rounds halves to the even side
RoundHalfEven(num, den) ==
    LET q == num \div den
        r == num - q * den
    IN IF 2 * r < den THEN q
       ELSE IF 2 * r > den THEN q + 1
       ELSE IF q % 2 = 0 THEN q ELSE q + 1

\* the local basis of a face, up to positive factors: tangent T, bitangent B
Tangent(co, loop) == Direction(VSub(co[loop[2]], co[loop[1]]))
Bitangent(N, T) == Direction(Cross(N, T))

\* get_uv_coords: u and v as fractions <<num, den>> with den > 0; a zero edge
\* length gives 0
\* n / d with d > 0; 0 for d = 0, the code's "if edge_length != 0 else 0"
Frac(n, d) == IF d = 0 THEN <<0, 1>> ELSE IF d < 0 THEN <<-n, -d>> ELSE <<n, d>>

get_uv_coords(co, loop, N, p) ==
    With(Tangent(co, loop), LAMBDA T :
    With(Bitangent(N, T), LAMBDA B :
      [u |-> Frac(Dot(VSub(p, co[loop[1]]), T),
                  Dot(VSub(co[loop[2]], co[loop[1]]), T)),
       v |-> Frac(Dot(VSub(p, co[loop[1]]), B),
                  Dot(VSub(co[loop[4]], co[loop[1]]), B))]))

\* A faulty variant of InSlop, for comparison: 0 < u < 1, without the slop.
InsideStrict(f) == 0 < f[1] /\ f[1] < f[2]

\* -0.01 <= u <= 1.01 for the fraction f
InSlop(f) == -f[2] <= SlopDen * f[1] /\ SlopDen * f[1] <= (SlopDen + 1) * f[2]

\* abs(normal.dot(v.co - center)) < tolerance
OnPlane(co, unit, loop, N, p) ==
    With(Dot(N, FromCentre(co, loop, p)), LAMBDA off :
      off * off * ToleranceDen * ToleranceDen
         < Len(loop) * Len(loop) * unit * unit * Dot(N, N))

\* the grid cell of a vertex of potential_verts: <<grid_u, grid_v>>
GridCell(co, loop, N, grid_cuts, p) ==
    With(get_uv_coords(co, loop, N, p), LAMBDA uv :
      <<Max(0, Min(RoundHalfEven(uv.u[1] * grid_cuts, uv.u[2]), grid_cuts)),
        Max(0, Min(RoundHalfEven(uv.v[1] * grid_cuts, uv.v[2]), grid_cuts))>>)

IsPotential(co, unit, loop, N, p) ==
    /\ OnPlane(co, unit, loop, N, p)
    /\ With(get_uv_coords(co, loop, N, p), LAMBDA uv : InSlop(uv.u) /\ InSlop(uv.v))

\* A faulty variant of TakesCell, for comparison: a vertex that comes to a
\* filled cell replaces the vertex in it.
TakesCell_always(held) == TRUE

\* Whether the vertex that comes to a cell takes it: only when it is empty.
TakesCell(held) == held = 0

\* vertex_grid after vertex k of bm.verts has come by: cell (i, j) is entry
\* i * size + j + 1, 0 stands for None
PlaceInGrid(grid, co, unit, loop, N, grid_cuts, k) ==
    IF ~IsPotential(co, unit, loop, N, co[k]) THEN grid
    ELSE With(GridCell(co, loop, N, grid_cuts, co[k]), LAMBDA cell :
         With(cell[1] * (grid_cuts + 1) + cell[2] + 1, LAMBDA at :
           IF TakesCell(grid[at]) THEN [grid EXCEPT ![at] = k] ELSE grid))

\* ... after the vertices lo..hi, in their order in bm.verts
RECURSIVE FillGrid(_, _, _, _, _, _, _, _)
FillGrid(grid, co, unit, loop, N, grid_cuts, lo, hi) ==
    IF lo > hi THEN grid
    ELSE IF lo = hi THEN PlaceInGrid(grid, co, unit, loop, N, grid_cuts, lo)
    ELSE With(FillGrid(grid, co, unit, loop, N, grid_cuts, lo, (lo + hi) \div 2),
              LAMBDA half :
           IF Len(half) = Len(grid)
           THEN FillGrid(half, co, unit, loop, N, grid_cuts, ((lo + hi) \div 2) + 1, hi)
           ELSE half)

\* the entries lo..hi of the grid that are not None, in their order
RECURSIVE Filled(_, _, _)
Filled(grid, lo, hi) ==
    IF lo > hi THEN << >>
    ELSE IF lo = hi THEN (IF grid[lo] # 0 THEN <<grid[lo]>> ELSE << >>)
    ELSE LET mid == (lo + hi) \div 2
         IN Filled(grid, lo, mid) \o Filled(grid, mid + 1, hi)

get_subdivided_vertices(co, unit, loop, N, grid_cuts) ==
    Filled(FillGrid([c \in 1..((grid_cuts + 1) * (grid_cuts + 1)) |-> 0] \o << >>,
                    co, unit, loop, N, grid_cuts, 1, Len(co)),
           1, (grid_cuts + 1) * (grid_cuts + 1))

\* the sort keys of sort_vertices_grid_order, up to positive factors:
\* <<v_, u, vertex>>
GridKeys(co, verts, loop, N) ==
    With(Tangent(co, loop), LAMBDA T :
    With(Bitangent(N, T), LAMBDA B :
      [k \in 1..Len(verts) |->
         With(FromCentre(co, loop, co[verts[k]]), LAMBDA vec :
           <<Dot(vec, B), Dot(vec, T), verts[k]>>)]))

\* key=lambda pair: (pair[0][1], pair[0][0]): by the first entry, then the second
KeyLess(a, b) == a[1] < b[1] \/ (a[1] = b[1] /\ a[2] < b[2])

\* how many of b[lo..hi] (sorted) come before key x, x being from the left run
RECURSIVE CountBefore(_, _, _, _)
CountBefore(b, x, lo, hi) ==
    IF lo > hi THEN 0
    ELSE LET mid == (lo + hi) \div 2
         IN IF KeyLess(b[mid], x)
            THEN (mid - lo + 1) + CountBefore(b, x, mid + 1, hi)
            ELSE CountBefore(b, x, lo, mid - 1)

\* the merge of two sorted runs, the left run first among equal keys
RECURSIVE Merge(_, _)
Merge(a, b) ==
    IF Len(a) = 0 THEN b
    ELSE IF Len(b) = 0 THEN a
    ELSE With((Len(a) + 1) \div 2, LAMBDA m :
         With(CountBefore(b, a[m], 1, Len(b)), LAMBDA c :
           Merge(SubSeq(a, 1, m - 1), SubSeq(b, 1, c)) \o <<a[m]>>
           \o Merge(SubSeq(a, m + 1, Len(a)), SubSeq(b, c + 1, Len(b)))))

\* sorted(...): a stable sort
RECURSIVE SortKeys(_)
SortKeys(s) ==
    IF Len(s) <= 1 THEN s
    ELSE LET h == Len(s) \div 2
         IN Merge(SortKeys(SubSeq(s, 1, h)), SortKeys(SubSeq(s, h + 1, Len(s))))

sort_vertices_grid_order(co, verts, size_x, size_y, loop, N) ==
    With(SortKeys(GridKeys(co, verts, loop, N)), LAMBDA sorted :
      [k \in 1..Len(sorted) |-> sorted[k][3]])

(***************************************************************************)
(* Displacement.  disp[k] is what has been added to the position of vertex *)
(* k, a fixed-point vector: the position is co[k] / unit + disp[k] / FP.   *)
(***************************************************************************)
\* normal * displacement_value
Displacement(normal, value) ==
    <<MulFP(normal[1], value), MulFP(normal[2], value), MulFP(normal[3], value)>>

\* v.co += displacement for entry k of verts
DisplaceOne(disp, verts, values, normal, k) ==
    [disp EXCEPT ![verts[k]] = VAdd(@, Displacement(normal, values[k]))]

\* the loop over enumerate(verts), entries lo..hi
RECURSIVE Displace(_, _, _, _, _, _)
Displace(disp, verts, values, normal, lo, hi) ==
    IF lo > hi THEN disp
    ELSE IF lo = hi THEN DisplaceOne(disp, verts, values, normal, lo)
    ELSE With(Displace(disp, verts, values, normal, lo, (lo + hi) \div 2),
              LAMBDA half :
           IF Len(half) = Len(disp)
           THEN Displace(half, verts, values, normal, ((lo + hi) \div 2) + 1, hi)
           ELSE half)

\* A faulty variant of apply_heightmap_to_vertices, for comparison: without
\* the check of the lengths, the loop runs as far as both sequences go.
apply_heightmap_unchecked(disp, verts, heightmap, normal) ==
    [raised |-> FALSE,
     disp |-> Displace(disp, verts, Flatten(heightmap), normal, 1,
                       Min(Len(verts), Len(Flatten(heightmap))))]

\* [raised |-> TRUE] stands for the exception "Mismatch between sorted
\* vertices and heightmap size."
apply_heightmap_to_vertices(disp, verts, heightmap, normal) ==
    With(Flatten(heightmap), LAMBDA heightmap_flat :
      IF Len(verts) # Len(heightmap_flat)
      THEN [raised |-> TRUE, disp |-> disp]
      ELSE [raised |-> FALSE,
            disp |-> Displace(disp, verts, heightmap_flat, normal, 1, Len(verts))])

(***************************************************************************)
(* physics_export/operators/heightmap.py                                   *)
(***************************************************************************)
PE_get_noise_function(settings) ==
    CASE settings.noise_type = "FBM" ->
           [func |-> "fbm_noise",
            params |-> [H |-> settings.H, lacunarity |-> settings.lacunarity,
                        octaves |-> settings.octaves]]
      [] settings.noise_type = "PERLIN" ->
           [func |-> "perlin_noise", params |-> EmptyParams]
      [] settings.noise_type = "SINE" ->
           [func |-> "sine_wave", params |-> EmptyParams]
      [] settings.noise_type = "SQUARE" ->
           [func |-> "square_wave", params |-> EmptyParams]
      [] settings.noise_type = "GABOR" ->
           [func |-> "gabor_noise",
            params |-> [orientation |-> settings.orientation * FP,
                        bandwidth |-> settings.bandwidth,
                        power_spectrum |-> settings.power_spectrum]]
      [] OTHER -> [func |-> "None", params |-> EmptyParams]

\* gabor_noise of physics_export; bandwidth # 0 (see PE_KernelRaises)
PE_gabor_noise(x, y, z, orientation, bandwidth, power_spectrum) ==
    LET phase == MulFP(MulFP(MulFP(2 * PiFP, power_spectrum), x), CosFP(orientation))
                    + MulFP(y, SinFP(orientation))
        length_squared == MulFP(x, x) + MulFP(y, y) + MulFP(z, z)
        envelope == ExpNegFP(Quot(length_squared * FP,
                                  MulFP(bandwidth, bandwidth)) \div 2)
    IN MulFP(CosFP(phase), envelope)

\* position.length_squared / bandwidth ** 2 divides by zero for bandwidth 0
\* (and for a bandwidth whose square is below the model's precision)
PE_KernelRaises(func, kwargs) ==
    /\ func = "gabor_noise"
    /\ With(ReceivedParams(func, kwargs)["bandwidth"], LAMBDA b : MulFP(b, b) = 0)

PE_CallKernel(func, x, y, kwargs) ==
    LET a == ReceivedParams(func, kwargs)
    IN IF func = "gabor_noise"
       THEN PE_gabor_noise(x, y, 0, a["orientation"], a["bandwidth"],
                           a["power_spectrum"])
       ELSE CallKernel(func, x, y, kwargs)

\* noise_function(x, y, **noise_params): the parameters are handed on
PE_forwarded_kwargs(noise_params) == noise_params

PE_normalize_heightmap(heightmap) ==
    IF Len(Flatten(heightmap)) = 0 THEN heightmap
    ELSE normalize_heightmap(heightmap)

PE_generate_heightmap(size_x, size_y, noise_function, amplitude, noise_params) ==
    LET kwargs == PE_forwarded_kwargs(noise_params)
    IN IF size_x < 0 \/ size_y < 0
          \/ (size_x > 0 /\ size_y > 0 /\ PE_KernelRaises(noise_function, kwargs))
       THEN [raised |-> TRUE, heightmap |-> << >>]
       ELSE LET x_vals == Linspace(size_x)
                y_vals == Linspace(size_y)
                raw == [i \in 1..size_x |-> [j \in 1..size_y |->
                           PE_CallKernel(noise_function, x_vals[i], y_vals[j], kwargs)]]
                Amp(h) == MulFP(h, amplitude)
            IN [raised |-> FALSE,
                heightmap |-> MapGrid(PE_normalize_heightmap(raw), Amp)]

\* np.std(heightmap)
calculate_heightmap_variability(heightmap) ==
    With(Flatten(heightmap), LAMBDA flat : StdDev(flat, Mean(flat)))

\* A faulty variant of determine_subdivisions, for comparison: the sign of
\* the variable part is wrong.
determine_subdivisions_less(variability, settings, base_subdivisions) ==
    LET scale_factor == IF settings.noise_type = "GABOR" THEN 8 ELSE 5
    IN base_subdivisions - Quot(scale_factor * variability, FP)

\* base_subdivisions + int(scale_factor * variability)
determine_subdivisions(variability, settings, base_subdivisions) ==
    LET scale_factor == IF settings.noise_type = "GABOR" THEN 8 ELSE 5
    IN base_subdivisions + Quot(scale_factor * variability, FP)

\* [raised |-> TRUE] stands for "Unable to determine grid size from
\* subdivided face."
calculate_grid_size(num_verts) ==
    With(ISqrt(num_verts), LAMBDA size :
      IF size * size # num_verts THEN [raised |-> TRUE, size |-> 0]
      ELSE [raised |-> FALSE, size |-> size])

\* compute_face_normal, as a direction
compute_face_normal(co, verts) ==
    Direction(Cross(VSub(co[verts[2]], co[verts[1]]),
                    VSub(co[verts[3]], co[verts[1]])))

\* the keys of sort_vertices, up to positive factors: <<v, u, vertex>>
PE_SortKeys(co, verts) ==
    With(Direction(VSub(co[verts[2]], co[verts[1]])), LAMBDA u_axis :
    With(Direction(Cross(compute_face_normal(co, verts), u_axis)), LAMBDA v_axis :
      [k \in 1..Len(verts) |->
         With(VSub(co[verts[k]], co[verts[1]]), LAMBDA vec :
           <<Dot(vec, v_axis), Dot(vec, u_axis), verts[k]>>)]))

sort_vertices(co, verts) ==
    With(SortKeys(PE_SortKeys(co, verts)), LAMBDA sorted :
      [k \in 1..Len(sorted) |-> sorted[k][3]])

\* heightmap[idx // size_y, idx % size_y] for idx = k - 1
PE_HeightAt(heightmap, size_y, k) ==
    heightmap[((k - 1) \div size_y) + 1][((k - 1) % size_y) + 1]

\* [raised |-> TRUE] stands for an exception: the mismatch of the lengths, or
\* the IndexError of sort_vertices for fewer than three vertices
apply_heightmap_to_face(co, disp, verts, heightmap, normal) ==
    LET size_x == Len(heightmap)
        size_y == IF Len(heightmap) = 0 THEN 0 ELSE Len(heightmap[1])
    IN IF Len(verts) < 3 THEN [raised |-> TRUE, disp |-> disp]
       ELSE With(sort_vertices(co, verts), LAMBDA verts_sorted :
              IF Len(verts_sorted) # size_x * size_y
              THEN [raised |-> TRUE, disp |-> disp]
              ELSE [raised |-> FALSE,
                    disp |-> Displace(disp, verts_sorted,
                                      [k \in 1..Len(verts_sorted) |->
                                          PE_HeightAt(heightmap, size_y, k)],
                                      normal, 1, Len(verts_sorted))])

(***************************************************************************)
(* The state: the context an operator runs in, the mesh, and what the last *)
(* run of an operator did.                                                 *)
(***************************************************************************)
VARIABLES
    obj_type,      \* context.active_object: "NONE", or its type
    mode,          \* obj.mode
    settings,      \* context.scene.heightmap_settings
    co,            \* bm.verts: the positions, counted in 1/unit
    unit,
    disp,          \* what the displacement step has added to each position
    selected,      \* the number of selected faces
    face,          \* selected_faces[0].verts
    face_valid,    \* selected_faces[0].is_valid
    op,            \* the operator that has run: "none" before
    host_did,      \* what the host did in subdivide_edges during that run
    result,        \* what it returned; "EXCEPTION" when it raised instead
    reports,       \* the self.report calls, in order
    work,          \* the steps it went into, in order
    cuts,          \* the cuts handed to subdivide_edges; -1 before
    heightmap,     \* the heightmap of the last generate_heightmap call
    noise_params,  \* the parameters get_noise_function returned
    kernel_args,   \* the parameters the kernel worked with
    grid_verts,    \* the vertices the operator collected from the face
    sorted_verts,  \* the vertices the displacement step moved, in its order
    call,          \* the arguments of a function that is called on its own
    raise_at,      \* the host call of the try block that raised; "none" before
    \* RunPolyFemSimulationOperator of polyfem/operators/run_polyfem.py
    project_exists,    \* os.path.exists(project_path)
    sim_thread,        \* RunPolyFemSimulationOperator._thread: 0 is None
    sim_workers,       \* the threads that run run_polyfem_simulation
    sim_report_queue,  \* RunPolyFemSimulationOperator.report_queue
    sim_timers,        \* the process_report_queue timers, one for a run
    sim_reports,       \* the self.report calls of the timers, in order
    sim_popups,        \* the popups the timers have scheduled, in order
    sim_exec,          \* what the last execute did
    \* RenderPolyFemAnimationOperator of polyfem/operators/run_polyfem.py
    anim_thread,           \* RenderPolyFemAnimationOperator._thread: 0 is None
    anim_workers,          \* the threads that run run_animation_process
    obj_file_list,         \* _obj_file_list: the step of an OBJ file, 0 for None
    current_import_index,  \* _current_import_index
    import_in_progress,    \* _import_in_progress
    total_imports,
    anim_timers,           \* the process_report_queue timers, one for a run
    import_timers,         \* the import_next_obj timers that are registered
    imported,              \* what import_next_obj was handed, in order
    anim_popups,           \* the 'Animation Render Complete' popups shown
    anim_exec,             \* what the last execute did
    \* RenderPolyFemAnimationOperator of physics_export/operators/run_polyfem.py
    render_in,             \* the settings and the project directory it finds
    render,                \* how far its execute is, and what it has made
    \* ConvertNormalToDisplacementOperator
    modal,                 \* the operator, its timer, the progress bar, the images
    \* PolyFEMApplyMaterial and CreatePolyFemJSONOperator
    json_settings,         \* materials_type, materials_E, ... of the settings
    json_objects,          \* the custom properties of the mesh objects
    json_data              \* what create_json_data has built last

vars == <<obj_type, mode, settings, co, unit, disp, selected, face, face_valid,
          op, host_did, result, reports, work, cuts, heightmap, noise_params,
          kernel_args, grid_verts, sorted_verts, call, raise_at,
          project_exists, sim_thread, sim_workers, sim_report_queue, sim_timers,
          sim_reports, sim_popups, sim_exec,
          anim_thread, anim_workers, obj_file_list, current_import_index,
          import_in_progress, total_imports, anim_timers,
          import_timers, imported, anim_popups, anim_exec,
          render_in, render, modal, json_settings, json_objects, json_data>>

\* the variables of the heightmap operators
heightmapVars ==
    <<obj_type, mode, settings, co, unit, disp, selected, face, face_valid,
      op, host_did, result, reports, work, cuts, heightmap, noise_params,
      kernel_args, grid_verts, sorted_verts, call, raise_at>>

\* the variables of RunPolyFemSimulationOperator, and their values while no
\* simulation has been started
simVars ==
    <<project_exists, sim_thread, sim_workers, sim_report_queue, sim_timers,
      sim_reports, sim_popups, sim_exec>>

NoWorker == [alive |-> FALSE, todo |-> << >>, put |-> << >>]
NoTimer == [state |-> "none", messages |-> << >>]
NoExec == [n |-> 0, result |-> "NONE", level |-> "NONE", started |-> FALSE]

SimOff ==
    /\ sim_thread = 0
    /\ sim_workers = [r \in 1..MaxRuns |-> NoWorker]
    /\ sim_report_queue = << >>
    /\ sim_timers = [r \in 1..MaxRuns |-> NoTimer]
    /\ sim_reports = << >> /\ sim_popups = << >>
    /\ sim_exec = NoExec

\* the variables of RenderPolyFemAnimationOperator (polyfem), and their
\* values while no rendering has been started
animVars ==
    <<anim_thread, anim_workers, obj_file_list, current_import_index,
      import_in_progress, total_imports, anim_timers,
      import_timers, imported, anim_popups, anim_exec>>

NoAnimWorker == [alive |-> FALSE, pc |-> "none", files |-> 0, fails |-> {},
                 converted |-> {}]

AnimOff ==
    /\ anim_thread = 0
    /\ anim_workers = [r \in 1..MaxRuns |-> NoAnimWorker]
    /\ obj_file_list = << >> /\ current_import_index = 0
    /\ import_in_progress = FALSE /\ total_imports = 0
    /\ anim_timers = [r \in 1..MaxRuns |-> "none"]
    /\ import_timers = 0 /\ imported = << >> /\ anim_popups = 0
    /\ anim_exec = [n |-> 0, result |-> "NONE", reset |-> FALSE]

\* the variables of RenderPolyFemAnimationOperator (physics_export), and
\* their values while it has not been run
renderVars == <<render_in, render>>

NoRenderIn == [settings |-> "polyfem", dir |-> {}, fails |-> {}, start_frame |-> 0,
               import_ok |-> TRUE]
NoRender == [pc |-> "idle", vtu_files |-> << >>, completed |-> {},
             obj_file_paths |-> << >>, frames |-> << >>, result |-> "NONE"]

RenderOff == render_in = NoRenderIn /\ render = NoRender

\* the variables of the operators modelled further down, and their values
\* while none of them has been run
\* ConvertNormalToDisplacementOperator while it has not been run: timer is
\* whether its event timer is registered, progress whether the progress bar
\* is open, images what it has put into bpy.data.images
NoModal == [state |-> "none", outcome |-> "none", event |-> "none",
            timer |-> FALSE, progress |-> FALSE, images |-> {},
            current_row |-> 0, total_rows |-> 0]

\* the variables of PolyFEMApplyMaterial and CreatePolyFemJSONOperator, and
\* their values while neither has been run: the defaults of the settings,
\* objects without custom properties.  E and rho are counted in 10^-7 and nu
\* in 10^-5, one digit more than create_json_data keeps.
jsonVars == <<json_settings, json_objects, json_data>>

DefaultMaterial == [type |-> "NeoHookean", E |-> 1000, nu |-> 30000, rho |-> 10000]
NoProps == [applied |-> FALSE, material_id |-> 0, type |-> "none", E |-> 0,
            nu |-> 0, rho |-> 0]
NoJson == [n |-> 0, result |-> "NONE", materials |-> << >>, geometry |-> << >>]

JsonOff ==
    /\ json_settings = DefaultMaterial
    /\ json_objects = [o \in 1..MaxObjects |-> NoProps]
    /\ json_data = NoJson

laterVars == <<renderVars, modal, jsonVars>>
LaterOff == RenderOff /\ modal = NoModal /\ JsonOff

\* the variables of the other operators, which a heightmap operator leaves
\* alone
otherVars == <<simVars, animVars, laterVars>>
OthersOff == project_exists = TRUE /\ SimOff /\ AnimOff /\ LaterOff

Rep(level, msg, args) == [level |-> level, msg |-> msg, args |-> args]

\* the context of a run, and the record of a run that has done nothing yet
Context ==
    [obj_type |-> obj_type, mode |-> mode, settings |-> settings, co |-> co,
     unit |-> unit, disp |-> disp, selected |-> selected, face |-> face,
     face_valid |-> face_valid]

Start(c) ==
    [mode |-> c.mode, co |-> c.co, unit |-> c.unit, disp |-> c.disp,
     face |-> c.face, result |-> "CANCELLED", reports |-> << >>, work |-> << >>,
     cuts |-> -1, heightmap |-> << >>, noise_params |-> EmptyParams,
     kernel_args |-> EmptyParams, grid_verts |-> << >>, sorted_verts |-> << >>]

\* self.report({'ERROR'}, msg); return {'CANCELLED'}
Fail(o, msg, args) ==
    [o EXCEPT !.reports = Append(@, Rep("ERROR", msg, args)), !.result = "CANCELLED"]

\* what the host may do in subdivide_edges: raise; cut the quad into
\* cuts x cuts cells ("cuts", the grid of (cuts + 1)^2 vertices the operators
\* count on) or into (cuts + 1) x (cuts + 1) cells ("cuts+1", cuts new vertices
\* on every edge); leave the face handle on the quad or on one cell
HostOutcomes == [raises : BOOLEAN, grid : {"cuts", "cuts+1"}, handle : {"quad", "cell"}]

Segs(host, n) == IF host.grid = "cuts" THEN n ELSE n + 1

\* the mesh after subdivide_edges
Subdivided(o, host, n) ==
    With(subdivide_edges(o.co, o.face, Segs(host, n)), LAMBDA co1 :
      [o EXCEPT !.co = co1, !.unit = o.unit * Segs(host, n),
                !.disp = o.disp \o [k \in 1..(Len(co1) - Len(o.co)) |-> Zero3],
                !.face = FaceAfter(Len(o.co), o.face, Segs(host, n),
                                   IF Len(o.face) = 4 THEN host.handle ELSE "quad"),
                !.cuts = n, !.work = Append(@, "subdivide")])

(***************************************************************************)
(* ApplyHeightmapOperator.execute of polyfem/operators/heightmap.py        *)
(***************************************************************************)
\* A faulty variant of limit_cuts, for comparison: the limit is off by one.
limit_cuts_off_by_one(heightmap_resolution) ==
    IF heightmap_resolution > max_cuts_per_edge + 1 THEN max_cuts_per_edge + 1
    ELSE heightmap_resolution

\* if heightmap_resolution > max_cuts_per_edge: grid_cuts = max_cuts_per_edge
limit_cuts(heightmap_resolution) ==
    IF heightmap_resolution > max_cuts_per_edge THEN max_cuts_per_edge
    ELSE heightmap_resolution

\* A faulty variant of grid_size, for comparison: as many grid points as
\* cuts.
grid_size_cuts(grid_cuts) == grid_cuts

\* size_x, size_y = grid_cuts + 1, grid_cuts + 1
grid_size(grid_cuts) == grid_cuts + 1

\* A faulty variant of count_mismatch, for comparison: the count is not
\* looked at.
count_mismatch_dropped(subdivided_verts, expected_vertex_count) == FALSE

\* if len(subdivided_verts) != expected_vertex_count
count_mismatch(subdivided_verts, expected_vertex_count) ==
    Len(subdivided_verts) # expected_vertex_count

\* the sorting and the displacement; N is face.normal
execute_displace(o, subdivided_verts, size, N) ==
    With(sort_vertices_grid_order(o.co, subdivided_verts, size, size, o.face, N),
         LAMBDA sorted_vertices :
    With(apply_heightmap_to_vertices(o.disp, sorted_vertices, o.heightmap, UnitFP(N)),
         LAMBDA a :
    With([o EXCEPT !.sorted_verts = sorted_vertices,
                   !.work = @ \o <<"sort", "displace">>, !.disp = a.disp],
         LAMBDA o3 :
      IF a.raised THEN Fail(o3, "Applying heightmap failed", << >>)
      ELSE [o3 EXCEPT !.result = "FINISHED"])))

\* the vertices of the subdivided face and their count; o is the mesh after
\* the subdivision
execute_collect(o, grid_cuts, size) ==
    With(face_normal(o.co, o.face), LAMBDA N :
    With(get_subdivided_vertices(o.co, o.unit, o.face, N, grid_cuts),
         LAMBDA subdivided_verts :
    With([o EXCEPT !.grid_verts = subdivided_verts, !.work = Append(@, "collect")],
         LAMBDA o2 :
      IF count_mismatch(subdivided_verts, size * size)
      THEN Fail(o2, "Subdivision resulted in vertices, expected",
                <<Len(subdivided_verts), size * size>>)
      ELSE execute_displace(o2, subdivided_verts, size, N))))

\* from the subdivision on; o.heightmap is the heightmap, size its side
execute_subdivide(o, host, grid_cuts, size) ==
    IF host.raises
    THEN Fail([o EXCEPT !.cuts = grid_cuts, !.work = Append(@, "subdivide")],
              "Subdivision failed", << >>)
    ELSE execute_collect(Subdivided(o, host, grid_cuts), grid_cuts, size)

\* How far a run has come when it reaches the subdivision: ready to go into
\* it with grid_cuts cuts, or returned before it.
Stop(o) == [ready |-> FALSE, grid_cuts |-> 0, o |-> o]
Ready(o, grid_cuts) == [ready |-> TRUE, grid_cuts |-> grid_cuts, o |-> o]

\* the heightmap: its resolution, the warning, the generation
execute_heightmap(c, o, nf) ==
    With(Max(2, c.settings.resolution), LAMBDA heightmap_resolution :
    With(limit_cuts(heightmap_resolution), LAMBDA grid_cuts :
    With([o EXCEPT
            !.reports = IF heightmap_resolution > max_cuts_per_edge
                        THEN Append(@, Rep("WARNING",
                                 "Resolution too high. Limiting edge cuts to",
                                 <<max_cuts_per_edge>>))
                        ELSE @,
            !.noise_params = nf.params,
            !.kernel_args = ReceivedParams(nf.func, forwarded_kwargs(nf.params)),
            !.work = Append(@, "generate")],
         LAMBDA o1 :
    With(generate_heightmap(grid_size(grid_cuts), grid_size(grid_cuts), nf.func,
                            c.settings.amplitude, nf.params),
         LAMBDA g :
      IF g.raised THEN Stop(Fail(o1, "Heightmap generation failed", << >>))
      ELSE Ready([o1 EXCEPT !.heightmap = g.heightmap], grid_cuts)))))

\* from the choice of the kernel on
execute_generate(c, o) ==
    With(get_noise_function(c.settings), LAMBDA nf :
      IF nf.func = "None" THEN Stop(Fail(o, "Invalid noise type.", << >>))
      ELSE execute_heightmap(c, o, nf))

\* A faulty variant of execute_try, for comparison: the check of the
\* planarity is left out.
execute_try_no_planar(c, o) ==
    IF c.selected = 0
    THEN Stop(Fail(o, "Please select a face before applying the heightmap.", << >>))
    ELSE IF c.selected > 1
    THEN Stop(Fail(o, "Please select only one face. The current selection has too many.",
                   << >>))
    ELSE IF Len(c.face) # 4
    THEN Stop(Fail(o, "Selected face is not a quad. Please select a quad face.", << >>))
    ELSE IF ~c.face_valid \/ face_normal(c.co, c.face) = Zero3
    THEN Stop(Fail(o, "Selected face is not valid or has no normal.", << >>))
    ELSE execute_generate(c, o)

\* the try block as far as the subdivision: the checks of the selection and
\* of the face, then the heightmap
execute_try(c, o) ==
    IF c.selected = 0
    THEN Stop(Fail(o, "Please select a face before applying the heightmap.", << >>))
    ELSE IF c.selected > 1
    THEN Stop(Fail(o, "Please select only one face. The current selection has too many.",
                   << >>))
    ELSE IF Len(c.face) # 4
    THEN Stop(Fail(o, "Selected face is not a quad. Please select a quad face.", << >>))
    ELSE IF ~c.face_valid \/ face_normal(c.co, c.face) = Zero3
    THEN Stop(Fail(o, "Selected face is not valid or has no normal.", << >>))
    ELSE IF ~is_face_planar(c.co, c.unit, c.face)
    THEN Stop(Fail(o, "Selected face is not planar. Please select a planar quad face.",
                   << >>))
    ELSE execute_generate(c, o)

\* execute as far as the subdivision
execute_prepare(c) ==
    IF c.obj_type # "MESH"
    THEN Stop(Fail(Start(c), "Active object is not a mesh.", << >>))
    ELSE execute_try(c, [Start(c) EXCEPT !.mode = "EDIT"])

\* A faulty variant of restore_mode, for comparison: the finally block is
\* left out.
restore_mode_dropped(o, original_mode) == o

\* finally: bpy.ops.object.mode_set(mode=original_mode)
restore_mode(o, original_mode) == [o EXCEPT !.mode = original_mode]

\* execute from the subdivision on, pre being how far it has come; a run on
\* what is no mesh has returned before the try block
execute_complete(c, pre, host) ==
    IF c.obj_type # "MESH" THEN pre.o
    ELSE With(restore_mode(IF pre.ready
                           THEN execute_subdivide(pre.o, host, pre.grid_cuts,
                                                  grid_size(pre.grid_cuts))
                           ELSE pre.o,
                           c.mode),
              LAMBDA o :
           IF o.result = "FINISHED"
           THEN [o EXCEPT !.reports = Append(@, Rep("INFO",
                                          "Heightmap applied successfully.", << >>))]
           ELSE o)

execute(c, host) == execute_complete(c, execute_prepare(c), host)

(***************************************************************************)
(* ApplyHeightmapOperator.execute of physics_export/operators/heightmap.py *)
(***************************************************************************)
\* the displacement and the end of the run; g is the heightmap generated for
\* the face
PE_execute_displace(o, verts, g) ==
    With(apply_heightmap_to_face(o.co, o.disp, verts, g.heightmap,
                                 UnitFP(face_normal(o.co, o.face))),
         LAMBDA a :
    With([o EXCEPT !.heightmap = g.heightmap, !.grid_verts = verts,
                   !.work = @ \o <<"generate", "sort", "displace">>,
                   !.disp = a.disp],
         LAMBDA o2 :
      IF a.raised THEN Fail(o2, "Applying heightmap failed", << >>)
      ELSE [o2 EXCEPT !.sorted_verts = sort_vertices(o.co, verts),
                      !.mode = "OBJECT",
                      !.result = "FINISHED",
                      !.reports = Append(@, Rep("INFO",
                                      "Heightmap applied successfully.", << >>))]))

\* A faulty variant of PE_execute_apply, for comparison: the heightmap that
\* is applied has the resolution of the first one.
PE_execute_apply_preview(c, o, nf) ==
    With(calculate_grid_size(Len(o.face)), LAMBDA gs :
      IF gs.raised THEN [o EXCEPT !.result = "EXCEPTION"]
      ELSE IF gs.size * gs.size # Len(o.face)
      THEN Fail(o, "Unable to determine grid size from subdivided face.", << >>)
      ELSE With(PE_generate_heightmap(Max(10, Quot(20 * c.settings.amplitude, FP)),
                                      Max(10, Quot(20 * c.settings.amplitude, FP)),
                                      nf.func, c.settings.amplitude, nf.params),
                LAMBDA g :
             IF g.raised
             THEN Fail([o EXCEPT !.work = Append(@, "generate")],
                       "Heightmap generation failed", << >>)
             ELSE PE_execute_displace(o, o.face, g)))

\* from the line after the subdivision on: o is the mesh after it.
\* calculate_grid_size is called outside every try block: what it raises
\* leaves execute as an exception.
PE_execute_apply(c, o, nf) ==
    With(calculate_grid_size(Len(o.face)), LAMBDA gs :
      IF gs.raised THEN [o EXCEPT !.result = "EXCEPTION"]
      ELSE IF gs.size * gs.size # Len(o.face)
      THEN Fail(o, "Unable to determine grid size from subdivided face.", << >>)
      ELSE With(PE_generate_heightmap(gs.size, gs.size, nf.func,
                                      c.settings.amplitude, nf.params),
                LAMBDA g :
             IF g.raised
             THEN Fail([o EXCEPT !.work = Append(@, "generate")],
                       "Heightmap generation failed", << >>)
             ELSE PE_execute_displace(o, o.face, g)))

\* How far a run has come when it reaches the subdivision.
PE_Stop(o) == [ready |-> FALSE, subdivisions |-> 0, nf |-> << >>, o |-> o]
PE_Ready(o, subdivisions, nf) ==
    [ready |-> TRUE, subdivisions |-> subdivisions, nf |-> nf, o |-> o]

\* the first heightmap, of a resolution taken from the amplitude, and the
\* cuts taken from its variability
PE_execute_generate(c, o, nf) ==
    With(Max(10, Quot(20 * c.settings.amplitude, FP)), LAMBDA heightmap_resolution :
    With(PE_generate_heightmap(heightmap_resolution, heightmap_resolution, nf.func,
                               c.settings.amplitude, nf.params),
         LAMBDA g :
    With([o EXCEPT !.noise_params = nf.params,
                   !.kernel_args = ReceivedParams(nf.func,
                                       PE_forwarded_kwargs(nf.params)),
                   !.work = Append(@, "generate")],
         LAMBDA o1 :
      IF g.raised THEN PE_Stop(Fail(o1, "Heightmap generation failed", << >>))
      ELSE PE_Ready(o1,
                    Max(1, determine_subdivisions(
                               calculate_heightmap_variability(g.heightmap),
                               c.settings, 1)),
                    nf))))

\* execute as far as the subdivision
PE_execute_prepare(c) ==
    IF c.obj_type # "MESH"
    THEN PE_Stop(Fail(Start(c), "Active object is not a mesh.", << >>))
    ELSE IF c.selected = 0
    THEN PE_Stop(Fail([Start(c) EXCEPT !.mode = "EDIT"],
                      "Please select a face before applying the heightmap.", << >>))
    ELSE IF c.selected > 1
    THEN PE_Stop(Fail([Start(c) EXCEPT !.mode = "EDIT"],
                      "Please select only one face. The current selection has too many.",
                      << >>))
    ELSE With(PE_get_noise_function(c.settings), LAMBDA nf :
           IF nf.func = "None"
           THEN PE_Stop(Fail([Start(c) EXCEPT !.mode = "EDIT"],
                             "Invalid noise type.", << >>))
           ELSE PE_execute_generate(c, [Start(c) EXCEPT !.mode = "EDIT"], nf))

\* execute from the subdivision on
PE_execute_complete(c, pre, host) ==
    IF ~pre.ready THEN pre.o
    ELSE IF host.raises
    THEN Fail([pre.o EXCEPT !.cuts = pre.subdivisions,
                            !.work = Append(@, "subdivide")],
              "Subdivision failed", << >>)
    ELSE PE_execute_apply(c, Subdivided(pre.o, host, pre.subdivisions), pre.nf)

PE_execute(c, host) == PE_execute_complete(c, PE_execute_prepare(c), host)

(***************************************************************************)
(* The scenes the operators are run on.                                    *)
(***************************************************************************)
Square == <<<<0, 0, 0>>, <<2, 0, 0>>, <<2, 2, 0>>, <<0, 2, 0>>>>
Box == Square \o <<<<0, 0, -2>>, <<2, 0, -2>>, <<2, 2, -2>>, <<0, 2, -2>>>>

Mesh(t, c, sel, f, valid) ==
    [obj_type |-> t, co |-> c, selected |-> sel, face |-> f, face_valid |-> valid]

MeshCatalog ==
    [none |-> Mesh("NONE", << >>, 0, << >>, TRUE),
     curve |-> Mesh("CURVE", << >>, 0, << >>, TRUE),
     plane |-> Mesh("MESH", Square, 1, <<1, 2, 3, 4>>, TRUE),
     box |-> Mesh("MESH", Box, 1, <<1, 2, 3, 4>>, TRUE),
     unselected |-> Mesh("MESH", Box, 0, << >>, TRUE),
     two |-> Mesh("MESH", Box, 2, <<1, 2, 3, 4>>, TRUE),
     flipped |-> Mesh("MESH", Box, 1, <<1, 4, 3, 2>>, TRUE),
     turned |-> Mesh("MESH", Box, 1, <<3, 4, 1, 2>>, TRUE),
     rect |-> Mesh("MESH", <<<<0, 0, 0>>, <<2, 0, 0>>, <<2, 1, 0>>, <<0, 1, 0>>>>,
                   1, <<1, 2, 3, 4>>, TRUE),
     slanted |-> Mesh("MESH", <<<<0, 0, 0>>, <<2, 0, 0>>, <<3, 2, 0>>, <<1, 2, 0>>>>,
                      1, <<1, 2, 3, 4>>, TRUE),
     triangle |-> Mesh("MESH", <<<<0, 0, 0>>, <<2, 0, 0>>, <<0, 2, 0>>>>,
                       1, <<1, 2, 3>>, TRUE),
     bent |-> Mesh("MESH", <<<<0, 0, 0>>, <<2, 0, 0>>, <<2, 2, 1>>, <<0, 2, 0>>>>,
                   1, <<1, 2, 3, 4>>, TRUE),
     line |-> Mesh("MESH", <<<<0, 0, 0>>, <<1, 0, 0>>, <<2, 0, 0>>, <<3, 0, 0>>>>,
                   1, <<1, 2, 3, 4>>, TRUE),
     invalid |-> Mesh("MESH", Square, 1, <<1, 2, 3, 4>>, FALSE)]

\* the kernel-specific settings: the defaults of the properties, other values,
\* and a bandwidth of zero (the least value physics_export allows)
DefaultKnobs ==
    [H |-> FP \div 2, lacunarity |-> 2 * FP, octaves |-> 4, orientation |-> 0,
     bandwidth |-> FP, power_spectrum |-> FP]
OtherKnobs ==
    [H |-> (4 * FP) \div 5, lacunarity |-> 3 * FP, octaves |-> 6, orientation |-> 90,
     bandwidth |-> FP \div 2, power_spectrum |-> 2 * FP]
KnobSets == {DefaultKnobs, OtherKnobs, [DefaultKnobs EXCEPT !.bandwidth = 0]}

Settings(nt, res, amp, k) ==
    [noise_type |-> nt, resolution |-> res, amplitude |-> amp, H |-> k.H,
     lacunarity |-> k.lacunarity, octaves |-> k.octaves,
     orientation |-> k.orientation, bandwidth |-> k.bandwidth,
     power_spectrum |-> k.power_spectrum]

\* "VORONOI" stands for a tag that is none of the five: the property is an
\* enumeration of the five, and the host hands out another tag only when the
\* value stored in the file matches none of its items
AllNoise == NoiseTypes \cup {"VORONOI"}
Amplitudes == {FP \div 2, FP}
\* the greatest value of the resolution property
resolution_max == 100
HighResolutions == {max_cuts_per_edge + 1, resolution_max}

\* <<mesh, settings, mode>>: every mesh with a valid and with an unknown noise
\* type; two quads with every noise type, amplitude and set of knobs; two
\* meshes with the resolutions above max_cuts_per_edge
Scenes ==
    { <<m, Settings(nt, res, FP \div 2, DefaultKnobs), md>> :
        m \in DOMAIN MeshCatalog, nt \in {"SINE", "VORONOI"}, res \in 1..MaxRes,
        md \in {"OBJECT", "EDIT"} }
    \cup
    { <<m, Settings(nt, res, amp, k), "OBJECT">> :
        m \in {"plane", "rect"}, nt \in AllNoise, res \in 1..MaxRes,
        amp \in Amplitudes, k \in KnobSets }
    \cup
    { <<m, Settings("SINE", res, FP \div 2, DefaultKnobs), "OBJECT">> :
        m \in {"box", "slanted"}, res \in HighResolutions }

NoHost == [raises |-> FALSE, grid |-> "none", handle |-> "none"]

\* no function is called on its own
NoCall ==
    [f |-> "none", size_x |-> 0, size_y |-> 0, grid |-> << >>, variability |-> 0,
     base_subdivisions |-> 0]

Idle ==
    /\ op = "none" /\ host_did = NoHost /\ result = "NONE" /\ reports = << >>
    /\ work = << >> /\ cuts = -1 /\ heightmap = << >> /\ noise_params = EmptyParams
    /\ kernel_args = EmptyParams /\ grid_verts = << >> /\ sorted_verts = << >>
    /\ call = NoCall /\ raise_at = "none" /\ OthersOff

Init ==
    /\ \E sc \in Scenes :
         /\ obj_type = MeshCatalog[sc[1]].obj_type
         /\ co = MeshCatalog[sc[1]].co
         /\ unit = 1
         /\ disp = [k \in 1..Len(MeshCatalog[sc[1]].co) |-> Zero3]
         /\ selected = MeshCatalog[sc[1]].selected
         /\ face = MeshCatalog[sc[1]].face
         /\ face_valid = MeshCatalog[sc[1]].face_valid
         /\ settings = sc[2]
         /\ mode = sc[3]
    /\ Idle

\* the variables a run of an operator writes
Ran(name, host, o) ==
    /\ op' = name /\ host_did' = host
    /\ mode' = o.mode /\ co' = o.co /\ unit' = o.unit /\ disp' = o.disp
    /\ face' = o.face /\ result' = o.result /\ reports' = o.reports
    /\ work' = o.work /\ cuts' = o.cuts /\ heightmap' = o.heightmap
    /\ noise_params' = o.noise_params /\ kernel_args' = o.kernel_args
    /\ grid_verts' = o.grid_verts /\ sorted_verts' = o.sorted_verts
    /\ UNCHANGED <<obj_type, settings, selected, face_valid, call, raise_at, otherVars>>

\* object.apply_heightmap of the polyfem add-on, run once on the scene
Execute ==
    /\ op = "none"
    /\ \E pre \in {execute_prepare(Context)} :
         \E host \in HostOutcomes :
            \E o \in {execute_complete(Context, pre, host)} : Ran("polyfem", host, o)

\* object.apply_heightmap of the physics_export add-on
PE_Execute ==
    /\ op = "none"
    /\ \E pre \in {PE_execute_prepare(Context)} :
         \E host \in HostOutcomes :
            \E o \in {PE_execute_complete(Context, pre, host)} :
               Ran("physics_export", host, o)

Next == Execute \/ PE_Execute

Spec == Init /\ [][Next]_vars

(***************************************************************************)
(* The displacement step on its own: apply_heightmap_to_vertices and       *)
(* apply_heightmap_to_face, called on a flat grid of size_x by size_y      *)
(* vertices (and one vertex beside it) with a heightmap of that shape and  *)
(* a list of vertices that has the length of the heightmap or not.  A face *)
(* has three vertices at least, so the lists are no shorter.               *)
(***************************************************************************)
\* vertex (i - 1) * size_y + j sits at grid point (i, j); the last vertex is
\* off the grid
GridMesh(size_x, size_y, plane) ==
    [k \in 1..(size_x * size_y) |->
        IF plane = "xy" THEN <<(k - 1) \div size_y, (k - 1) % size_y, 0>>
        ELSE <<(k - 1) \div size_y, 0, (k - 1) % size_y>>]
    \o <<<<0, -1, -1>>>>

GridCorners(size_x, size_y) ==
    <<1, (size_x - 1) * size_y + 1, size_x * size_y, size_y>>

HeightKinds == {"flat", "ramp"}
\* all 2.0, or a value of its own at every place
HeightGrid(size_x, size_y, kind) ==
    [i \in 1..size_x |-> [j \in 1..size_y |->
        IF kind = "flat" THEN 2 * FP ELSE 100 * i + 7 * j]]

ListKinds == {"grid", "reversed", "short", "long"}
VertexList(n, kind) ==
    CASE kind = "grid" -> [k \in 1..n |-> k]
      [] kind = "reversed" -> [k \in 1..n |-> n + 1 - k]
      [] kind = "short" -> [k \in 1..(n - 1) |-> k]
      [] kind = "long" -> [k \in 1..(n + 1) |-> k]

\* the variables the steps on their own do not use
Unused ==
    /\ obj_type = "MESH" /\ mode = "EDIT" /\ selected = 1 /\ face_valid = TRUE
    /\ settings = Settings("SINE", 2, FP, DefaultKnobs)
    /\ host_did = NoHost /\ reports = << >> /\ work = << >>
    /\ noise_params = EmptyParams /\ kernel_args = EmptyParams
    /\ call = NoCall /\ raise_at = "none" /\ OthersOff

ApplyInit ==
    /\ \E size_x \in 2..MaxGrid, size_y \in 2..MaxGrid, plane \in {"xy", "xz"},
          hk \in HeightKinds, lk \in ListKinds :
         /\ co = GridMesh(size_x, size_y, plane)
         /\ disp = [k \in 1..(size_x * size_y + 1) |-> Zero3]
         /\ face = GridCorners(size_x, size_y)
         /\ heightmap = HeightGrid(size_x, size_y, hk)
         /\ grid_verts = VertexList(size_x * size_y, lk)
    /\ unit = 1 /\ op = "none" /\ result = "NONE" /\ cuts = -1
    /\ sorted_verts = << >>
    /\ Unused

Applied(name, a, order) ==
    /\ op' = name
    /\ disp' = a.disp
    /\ result' = IF a.raised THEN "RAISED" ELSE "RETURNED"
    /\ sorted_verts' = order
    /\ UNCHANGED <<obj_type, mode, settings, co, unit, selected, face, face_valid,
                   host_did, reports, work, cuts, heightmap, noise_params,
                   kernel_args, grid_verts, call, raise_at, otherVars>>

\* self.apply_heightmap_to_vertices(sorted_vertices, heightmap, face.normal)
Apply ==
    /\ op = "none"
    /\ \E a \in {apply_heightmap_to_vertices(disp, grid_verts, heightmap,
                                             UnitFP(face_normal(co, face)))} :
         Applied("apply", a, grid_verts)

\* self.apply_heightmap_to_face(verts, heightmap, face.normal)
PE_Apply ==
    /\ op = "none"
    /\ \E a \in {apply_heightmap_to_face(co, disp, grid_verts, heightmap,
                                         UnitFP(face_normal(co, face)))} :
         Applied("pe_apply", a, sort_vertices(co, grid_verts))

NextApply == Apply \/ PE_Apply

SpecApply == ApplyInit /\ [][NextApply]_vars

(***************************************************************************)
(* The grid reconstruction on its own: get_subdivided_vertices and         *)
(* sort_vertices_grid_order on a square face cut into a regular grid, its  *)
(* vertices at their exact positions.                                      *)
(***************************************************************************)
SquareCatalog ==
    [plane |-> Square,
     box |-> Box,
     diamond |-> <<<<1, 0, 0>>, <<2, 1, 0>>, <<1, 2, 0>>, <<0, 1, 0>>>>,
     wall |-> <<<<0, 0, 0>>, <<2, 0, 0>>, <<2, 0, 2>>, <<0, 0, 2>>>>,
     far |-> <<<<1, 1, 1>>, <<4, 1, 1>>, <<4, 4, 1>>, <<1, 4, 1>>, <<9, 9, 9>>>>]

\* the orders in which a face may hold its four vertices
Loops ==
    {<<1, 2, 3, 4>>, <<2, 3, 4, 1>>, <<3, 4, 1, 2>>, <<4, 1, 2, 3>>,
     <<1, 4, 3, 2>>, <<4, 3, 2, 1>>, <<3, 2, 1, 4>>, <<2, 1, 4, 3>>}

GridInit ==
    /\ \E m \in DOMAIN SquareCatalog, loop \in Loops, n \in 1..MaxCuts :
         /\ co = subdivide_edges(SquareCatalog[m], loop, n)
         /\ unit = n
         /\ face = loop
         /\ cuts = n
         /\ disp = [k \in 1..(Len(SquareCatalog[m]) + (n + 1) * (n + 1) - 4) |-> Zero3]
    /\ op = "none" /\ result = "NONE" /\ heightmap = << >>
    /\ grid_verts = << >> /\ sorted_verts = << >>
    /\ Unused

\* subdivided_verts = self.get_subdivided_vertices(bm, face, grid_cuts)
Collect ==
    /\ op = "none"
    /\ op' = "collected"
    /\ grid_verts' = get_subdivided_vertices(co, unit, face, face_normal(co, face), cuts)
    /\ UNCHANGED <<obj_type, mode, settings, co, unit, disp, selected, face,
                   face_valid, host_did, result, reports, work, cuts, heightmap,
                   noise_params, kernel_args, sorted_verts, call, raise_at, otherVars>>

\* sorted_vertices = self.sort_vertices_grid_order(subdivided_verts, size_x, size_y, face)
Sort ==
    /\ op = "collected"
    /\ op' = "sorted"
    /\ sorted_verts' = sort_vertices_grid_order(co, grid_verts, cuts + 1, cuts + 1,
                                                face, face_normal(co, face))
    /\ UNCHANGED <<obj_type, mode, settings, co, unit, disp, selected, face,
                   face_valid, host_did, result, reports, work, cuts, heightmap,
                   noise_params, kernel_args, grid_verts, call, raise_at, otherVars>>

NextGrid == Collect \/ Sort

SpecGrid == GridInit /\ [][NextGrid]_vars

(***************************************************************************)
(* The functions on their own: generate_heightmap and normalize_heightmap  *)
(* of both operators, and determine_subdivisions, called with arguments of *)
(* the kinds an operator or a test hands to them.                          *)
(***************************************************************************)
\* grids to normalize: of one value, and with a value of its own at every
\* place
NormalizeGrids ==
    { [i \in 1..sx |-> [j \in 1..sy |-> c]] :
         sx \in 1..MaxSize, sy \in 1..MaxSize, c \in {-FP, 0, 7, 2 * FP} }
    \cup { HeightGrid(sx, sy, "ramp") : sx \in 1..MaxSize, sy \in 1..MaxSize }

Variabilities == { (k * FP) \div 20 : k \in 0..MaxVar }

\* the amplitudes of the heightmaps generated on their own
CallAmplitudes == {0, FP \div 2, FP, 3 * FP}

\* <<call, settings>>
CallScenes ==
    { <<[NoCall EXCEPT !.f = "generate_heightmap", !.size_x = sx, !.size_y = sy],
        Settings(nt, 2, amp, k)>> :
        sx \in -1..MaxSize, sy \in -1..MaxSize, nt \in NoiseTypes,
        amp \in CallAmplitudes, k \in KnobSets }
    \cup
    { <<[NoCall EXCEPT !.f = "normalize_heightmap", !.grid = g],
        Settings("SINE", 2, FP, DefaultKnobs)>> : g \in NormalizeGrids }
    \cup
    { <<[NoCall EXCEPT !.f = "determine_subdivisions", !.variability = v,
                       !.base_subdivisions = b],
        Settings(nt, 2, FP, DefaultKnobs)>> :
        v \in Variabilities, b \in 1..MaxBase, nt \in NoiseTypes }

CallInit ==
    /\ \E sc \in CallScenes : call = sc[1] /\ settings = sc[2]
    /\ obj_type = "MESH" /\ mode = "EDIT" /\ selected = 1 /\ face_valid = TRUE
    /\ co = Square /\ unit = 1 /\ disp = [k \in 1..4 |-> Zero3]
    /\ face = <<1, 2, 3, 4>>
    /\ op = "none" /\ host_did = NoHost /\ result = "NONE" /\ reports = << >>
    /\ work = << >> /\ cuts = -1 /\ heightmap = << >> /\ noise_params = EmptyParams
    /\ kernel_args = EmptyParams /\ grid_verts = << >> /\ sorted_verts = << >>
    /\ raise_at = "none" /\ OthersOff

\* the variables a call writes: r is what it returned, or that it raised
Called(name, r) ==
    /\ op' = name
    /\ heightmap' = r.heightmap
    /\ result' = IF r.raised THEN "RAISED" ELSE "RETURNED"
    /\ UNCHANGED <<obj_type, mode, settings, co, unit, disp, selected, face,
                   face_valid, host_did, reports, work, cuts, noise_params,
                   kernel_args, grid_verts, sorted_verts, call, raise_at, otherVars>>

\* self.generate_heightmap(size_x, size_y, noise_func, amplitude, **noise_params)
\* of polyfem, with the kernel and the parameters of the settings
generate_call ==
    With(get_noise_function(settings), LAMBDA nf :
      generate_heightmap(call.size_x, call.size_y, nf.func, settings.amplitude,
                         nf.params))

\* ... of physics_export
PE_generate_call ==
    With(PE_get_noise_function(settings), LAMBDA nf :
      PE_generate_heightmap(call.size_x, call.size_y, nf.func, settings.amplitude,
                            nf.params))

Generate ==
    /\ op = "none" /\ call.f = "generate_heightmap"
    /\ \E g \in {generate_call} : Called("generate", g)

PE_Generate ==
    /\ op = "none" /\ call.f = "generate_heightmap"
    /\ \E g \in {PE_generate_call} : Called("pe_generate", g)

\* A faulty variant of GenerateAgain, for comparison: the generator keeps the
\* grid of its last call and adds it to the next one.
GenerateAgain_kept ==
    /\ op \in {"generate", "pe_generate"}
    /\ \E g \in {IF op = "generate" THEN generate_call ELSE PE_generate_call} :
         Called(IF op = "generate" THEN "generate_again" ELSE "pe_generate_again",
                [g EXCEPT !.heightmap =
                    [i \in DOMAIN g.heightmap |-> [j \in DOMAIN g.heightmap[i] |->
                        g.heightmap[i][j] + heightmap[i][j]]]])

\* the same call once more
GenerateAgain ==
    /\ op \in {"generate", "pe_generate"}
    /\ \E g \in {IF op = "generate" THEN generate_call ELSE PE_generate_call} :
         Called(IF op = "generate" THEN "generate_again" ELSE "pe_generate_again", g)

\* self.normalize_heightmap(heightmap) of polyfem
Normalize ==
    /\ op = "none" /\ call.f = "normalize_heightmap"
    /\ Called("normalize", [raised |-> FALSE,
                            heightmap |-> normalize_heightmap(call.grid)])

\* ... of physics_export
PE_Normalize ==
    /\ op = "none" /\ call.f = "normalize_heightmap"
    /\ Called("pe_normalize", [raised |-> FALSE,
                               heightmap |-> PE_normalize_heightmap(call.grid)])

\* subdivisions = self.determine_subdivisions(variability, settings)
\* subdivisions = max(1, subdivisions)
Plan ==
    /\ op = "none" /\ call.f = "determine_subdivisions"
    /\ op' = "plan"
    /\ cuts' = Max(1, determine_subdivisions(call.variability, settings,
                                             call.base_subdivisions))
    /\ result' = "RETURNED"
    /\ UNCHANGED <<obj_type, mode, settings, co, unit, disp, selected, face,
                   face_valid, host_did, reports, work, heightmap, noise_params,
                   kernel_args, grid_verts, sorted_verts, call, raise_at, otherVars>>

NextCalls ==
    Generate \/ PE_Generate \/ GenerateAgain \/ Normalize \/ PE_Normalize \/ Plan

SpecCalls == CallInit /\ [][NextCalls]_vars

(***************************************************************************)
(* Properties.                                                             *)
(***************************************************************************)
Has(w, step) == \E k \in 1..Len(w) : w[k] = step
Reported(r, level) == \E k \in 1..Len(r) : r[k].level = level
EndsInError(r) == Len(r) > 0 /\ r[Len(r)].level = "ERROR"
NotMoved(d) == \A k \in 1..Len(d) : d[k] = Zero3

\* one of the checks of the selection and of the face fails
PreconditionFails ==
    \/ selected = 0
    \/ selected > 1
    \/ Len(face) # 4
    \/ ~face_valid
    \/ face_normal(co, face) = Zero3
    \/ ~is_face_planar(co, unit, face)

\* C1: a run of the polyfem operator on a mesh whose selection or face fails
\* a precondition (no face or several selected, no quad, invalid or without
\* a normal, not planar) reports one ERROR, returns CANCELLED, never starts
\* the heightmap generation, and neither subdivides the face nor moves a
\* vertex.
C1_PreconditionErrors ==
    [][(op = "none" /\ op' = "polyfem" /\ obj_type = "MESH" /\ PreconditionFails)
         => /\ result' = "CANCELLED"
            /\ Len(reports') = 1 /\ reports'[1].level = "ERROR"
            /\ work' = << >> /\ heightmap' = << >> /\ cuts' = -1
            /\ co' = co /\ unit' = unit /\ face' = face /\ disp' = disp]_vars

\* a run that was cancelled for a face that is not planar
C1_Witness ==
    /\ op = "polyfem" /\ result = "CANCELLED" /\ work = << >>
    /\ reports = <<Rep("ERROR",
           "Selected face is not planar. Please select a planar quad face.", << >>)>>
    /\ NotMoved(disp)

\* the shape of the heightmap handed to a displacement step
SizeX == Len(heightmap)
SizeY == IF Len(heightmap) = 0 THEN 0 ELSE Len(heightmap[1])

\* C2: the displacement step of either variant, called with a list of
\* vertices whose length is not size_x * size_y, raises and has moved no
\* vertex.
C2_MismatchRaises ==
    (op \in {"apply", "pe_apply"} /\ Len(grid_verts) # SizeX * SizeY)
       => (result = "RAISED" /\ NotMoved(disp))

\* 24 vertices against a heightmap of 5 x 5: the polyfem step has raised
C2_Witness ==
    /\ op = "apply" /\ Len(grid_verts) = 24 /\ SizeX = 5 /\ SizeY = 5
    /\ result = "RAISED" /\ NotMoved(disp)

\* C3: when the polyfem operator has collected a number of vertices from the
\* subdivided face that is not (grid_cuts + 1)^2, it reports an ERROR that
\* states both numbers, returns CANCELLED, and has neither sorted nor moved
\* a vertex.
C3_CountMismatch ==
    (op = "polyfem" /\ Has(work, "collect")
        /\ Len(grid_verts) # (cuts + 1) * (cuts + 1))
       => /\ result = "CANCELLED"
          /\ EndsInError(reports)
          /\ reports[Len(reports)].msg = "Subdivision resulted in vertices, expected"
          /\ reports[Len(reports)].args = <<Len(grid_verts), (cuts + 1) * (cuts + 1)>>
          /\ ~Has(work, "sort") /\ ~Has(work, "displace")
          /\ sorted_verts = << >> /\ NotMoved(disp)

\* a run that found some, and too few, vertices on the subdivided face
C3_Witness ==
    /\ op = "polyfem" /\ Has(work, "collect") /\ result = "CANCELLED"
    /\ Len(grid_verts) > 0 /\ Len(grid_verts) < (cuts + 1) * (cuts + 1)
    /\ NotMoved(disp)

\* the grid cell <<i, j>> of vertex v of the subdivided face, i along the
\* tangent and j along the bitangent
CellOf(v) == GridCell(co, face, face_normal(co, face), cuts, co[v])

\* C4: after a successful run of the polyfem operator on a face the host has
\* cut into grid_cuts x grid_cuts cells, the vertex at grid cell (i, j) has
\* been displaced by normal * heightmap[i, j].
C4_CellHeight ==
    (op = "polyfem" /\ result = "FINISHED" /\ host_did.grid = "cuts")
       => \A k \in 1..Len(grid_verts) :
             disp[grid_verts[k]] =
                Displacement(UnitFP(face_normal(co, face)),
                             heightmap[CellOf(grid_verts[k])[1] + 1]
                                      [CellOf(grid_verts[k])[2] + 1])

\* what the operator does instead: the vertex at grid cell (i, j) is
\* displaced by normal * heightmap[j, i]
C4_Transposed ==
    (op = "polyfem" /\ result = "FINISHED" /\ host_did.grid = "cuts")
       => \A k \in 1..Len(grid_verts) :
             disp[grid_verts[k]] =
                Displacement(UnitFP(face_normal(co, face)),
                             heightmap[CellOf(grid_verts[k])[2] + 1]
                                      [CellOf(grid_verts[k])[1] + 1])

\* heightmap[k // size_y, k % size_y] for the k-th vertex, k counted from 0
HeightOf(k) == heightmap[(k \div SizeY) + 1][(k % SizeY) + 1]

\* face.normal, as the displacement step gets it
StepNormal == UnitFP(face_normal(co, face))

\* C5: the displacement step of either variant, called with size_x * size_y
\* vertices, returns having added normal * heightmap[k // size_y, k % size_y]
\* to the k-th sorted vertex, once, and nothing to any other vertex; what it
\* adds lies along the normal; the flattened heightmap holds at k the value
\* at [k // size_y, k % size_y].
C5_Displacement ==
    /\ \A k \in 1..Len(Flatten(heightmap)) :
          Flatten(heightmap)[k] = HeightOf(k - 1)
    /\ (op \in {"apply", "pe_apply"} /\ Len(grid_verts) = SizeX * SizeY)
          => /\ result = "RETURNED"
             /\ Len(sorted_verts) = Len(grid_verts)
             /\ \A v \in 1..Len(disp) :
                   /\ Cardinality({k \in 1..Len(sorted_verts) : sorted_verts[k] = v}) <= 1
                   /\ \A k \in 1..Len(sorted_verts) :
                         sorted_verts[k] = v
                            => disp[v] = Displacement(StepNormal, HeightOf(k - 1))
                   /\ (~\E k \in 1..Len(sorted_verts) : sorted_verts[k] = v)
                         => disp[v] = Zero3
                   /\ Cross(disp[v], StepNormal) = Zero3

\* a flat grid of 5 x 5 vertices, the normal (0, 0, 1), the heightmap all 2.0:
\* the physics_export step has raised every vertex of the grid by 2.0 in Z
\* and by nothing in X and Y
C5_Witness ==
    /\ op = "pe_apply" /\ result = "RETURNED" /\ SizeX = 5 /\ SizeY = 5
    /\ StepNormal = <<0, 0, FP>>
    /\ \A i \in 1..5, j \in 1..5 : heightmap[i][j] = 2 * FP
    /\ \A k \in 1..25 : disp[grid_verts[k]] = <<0, 0, 2 * FP>>

\* the checks of the object, the selection and the face all pass
PreconditionsHold == obj_type = "MESH" /\ ~PreconditionFails

\* C6: a run of the polyfem operator with a noise type that is none of the
\* five gets no kernel from get_noise_function, ends with an ERROR report
\* and CANCELLED, without an exception, and has sampled no kernel, cut no
\* face and moved no vertex; where the checks of the object and the face
\* pass, the report is 'Invalid noise type.'.
C6_InvalidNoiseType ==
    (op = "polyfem" /\ settings.noise_type \notin NoiseTypes)
       => /\ get_noise_function(settings).func = "None"
          /\ result = "CANCELLED"
          /\ Len(reports) = 1 /\ reports[1].level = "ERROR"
          /\ work = << >> /\ heightmap = << >> /\ cuts = -1
          /\ kernel_args = EmptyParams /\ NotMoved(disp)
          /\ PreconditionsHold
                => reports = <<Rep("ERROR", "Invalid noise type.", << >>)>>

\* a run on a planar quad that was cancelled for its noise type
C6_Witness ==
    /\ op = "polyfem" /\ settings.noise_type = "VORONOI" /\ PreconditionsHold
    /\ result = "CANCELLED"
    /\ reports = <<Rep("ERROR", "Invalid noise type.", << >>)>>

\* the grid coordinates of vertex v, up to a factor: along the edge from
\* vertex 0 to vertex 1 of the face, and along the edge from vertex 0 to
\* vertex 3
AlongU(v) == Dot(VSub(co[v], co[face[1]]), VSub(co[face[2]], co[face[1]]))
AlongV(v) == Dot(VSub(co[v], co[face[1]]), VSub(co[face[4]], co[face[1]]))

\* the vertices of the subdivided face: its corners and the vertices the
\* subdivision has made
FaceVertices ==
    {face[k] : k \in 1..4}
       \cup ((Len(co) - ((cuts + 1) * (cuts + 1) - 4) + 1)..Len(co))

\* C7: on a square face cut into a regular grid, get_subdivided_vertices
\* returns every one of the (grid_cuts + 1)^2 vertices of the face once, and
\* the list sort_vertices_grid_order makes of them, read as rows of
\* grid_cuts + 1 vertices, rises in one grid coordinate along every row and
\* in the other along every column.
C7_RoundTrip ==
    /\ op \in {"collected", "sorted"}
          => /\ Len(grid_verts) = (cuts + 1) * (cuts + 1)
             /\ {grid_verts[k] : k \in 1..Len(grid_verts)} = FaceVertices
             /\ Cardinality(FaceVertices) = (cuts + 1) * (cuts + 1)
    /\ op = "sorted"
          => /\ Len(sorted_verts) = (cuts + 1) * (cuts + 1)
             /\ {sorted_verts[k] : k \in 1..Len(sorted_verts)} = FaceVertices
             /\ \A r \in 0..cuts, c \in 0..(cuts - 1) :
                   /\ AlongU(sorted_verts[r * (cuts + 1) + c + 1])
                         < AlongU(sorted_verts[r * (cuts + 1) + c + 2])
                   /\ AlongV(sorted_verts[r * (cuts + 1) + c + 1])
                         = AlongV(sorted_verts[r * (cuts + 1) + c + 2])
             /\ \A r \in 0..(cuts - 1), c \in 0..cuts :
                   /\ AlongV(sorted_verts[r * (cuts + 1) + c + 1])
                         < AlongV(sorted_verts[(r + 1) * (cuts + 1) + c + 1])
                   /\ AlongU(sorted_verts[r * (cuts + 1) + c + 1])
                         = AlongU(sorted_verts[(r + 1) * (cuts + 1) + c + 1])

\* a square cut three times along every edge, its 16 vertices collected and
\* sorted
C7_Witness ==
    /\ op = "sorted" /\ cuts = 3 /\ Len(grid_verts) = 16 /\ Len(sorted_verts) = 16

\* the kernel-specific parameters as the settings give them
Configured(st) ==
    CASE st.noise_type = "FBM" ->
           [H |-> st.H, lacunarity |-> st.lacunarity, octaves |-> st.octaves]
      [] st.noise_type = "GABOR" ->
           [orientation |-> Radians(st.orientation), bandwidth |-> st.bandwidth,
            power_spectrum |-> st.power_spectrum]
      [] OTHER -> EmptyParams

\* C8: in a run of the polyfem operator that generates a heightmap, the
\* parameters the kernel works with are the parameters of the settings.
C8_KernelParameters ==
    (op = "polyfem" /\ Has(work, "generate"))
       => (noise_params = Configured(settings) /\ kernel_args = Configured(settings))

\* what the operator does instead: the kernel works with the defaults of its
\* signature, whatever the settings are
C8_KernelDefaults ==
    (op = "polyfem" /\ Has(work, "generate"))
       => /\ noise_params = Configured(settings)
          /\ \A p \in DOMAIN kernel_args : kernel_args[p] = KernelDefaults[p]

\* the same scene with the resolution set to max_cuts_per_edge
AtLimit(c) == [c EXCEPT !.settings.resolution = max_cuts_per_edge]

\* C9: a run of the polyfem operator never hands more than max_cuts_per_edge
\* cuts to subdivide_edges; with a resolution above max_cuts_per_edge, a run
\* that comes to the heightmap reports a WARNING, goes on to the subdivision
\* with exactly max_cuts_per_edge cuts, and ends as the run with the
\* resolution max_cuts_per_edge ends.
C9_CutsLimited ==
    [][(op = "none" /\ op' = "polyfem")
         => /\ cuts' <= max_cuts_per_edge
            /\ (settings.resolution > max_cuts_per_edge /\ Has(work', "generate"))
                  => /\ Reported(reports', "WARNING")
                     /\ Has(work', "subdivide")
                     /\ cuts' = max_cuts_per_edge
                     /\ With(execute(AtLimit(Context), host_did'), LAMBDA e :
                           /\ result' = e.result
                           /\ Has(work', "displace") = Has(e.work, "displace"))]_vars

\* a run with the greatest resolution that was limited to max_cuts_per_edge
\* cuts, warned, and went through the displacement to the end
C9_Witness ==
    /\ op = "polyfem" /\ settings.resolution = resolution_max
    /\ cuts = max_cuts_per_edge /\ Reported(reports, "WARNING")
    /\ Has(work, "displace") /\ result = "FINISHED"
    /\ Len(grid_verts) = (max_cuts_per_edge + 1) * (max_cuts_per_edge + 1)

\* C10: a run of the physics_export operator ends with FINISHED, or with
\* CANCELLED and an ERROR report: no exception leaves execute.
C10_FailuresAreReported ==
    op = "physics_export"
       => \/ result = "FINISHED"
          \/ result = "CANCELLED" /\ EndsInError(reports)

\* what the operator does instead for a face whose number of vertices after
\* the subdivision is no square: calculate_grid_size raises, and the
\* exception leaves execute without a report
C10_GridSizeEscapes ==
    (op = "physics_export" /\ result = "EXCEPTION")
       => /\ Has(work, "subdivide")
          /\ calculate_grid_size(Len(face)).raised
          /\ ~Reported(reports, "ERROR")

\* C11: in a run of the polyfem operator that comes to the subdivision, the
\* cuts handed to subdivide_edges are grid_cuts = min(max(2, resolution),
\* max_cuts_per_edge), the heightmap is square with grid_cuts + 1 values
\* along either index, the number of vertices the run expects of the
\* subdivided face is (grid_cuts + 1)^2, and a run that displaces displaces
\* that many.
C11_SquareGrid ==
    (op = "polyfem" /\ Has(work, "subdivide"))
       => /\ cuts = Min(Max(2, settings.resolution), max_cuts_per_edge)
          /\ SizeX = cuts + 1
          /\ \A i \in 1..SizeX : Len(heightmap[i]) = cuts + 1
          /\ (EndsInError(reports)
                /\ reports[Len(reports)].msg = "Subdivision resulted in vertices, expected")
                => reports[Len(reports)].args[2] = (cuts + 1) * (cuts + 1)
          /\ Has(work, "collect")
                => (Has(work, "displace") <=> Len(grid_verts) = (cuts + 1) * (cuts + 1))
          /\ Has(work, "displace") => Len(sorted_verts) = SizeX * SizeY

\* a run with the resolution 1: two cuts, a heightmap of 3 x 3, nine vertices
\* displaced
C11_Witness ==
    /\ op = "polyfem" /\ settings.resolution = 1 /\ cuts = 2
    /\ SizeX = 3 /\ SizeY = 3 /\ result = "FINISHED" /\ Len(sorted_verts) = 9

\* C12: determine_subdivisions does not fall when the variability rises, the
\* noise type and base_subdivisions being the same; nor does the count of
\* cuts max(1, .) makes of it.
C12_Monotone ==
    op = "plan"
       => \A v2 \in Variabilities :
             call.variability <= v2
                => /\ \A b \in 1..MaxBase :
                         determine_subdivisions(call.variability, settings, b)
                            <= determine_subdivisions(v2, settings, b)
                   /\ cuts <= Max(1, determine_subdivisions(v2, settings,
                                                            call.base_subdivisions))

\* Gabor noise, the variability 0.5, base_subdivisions 1: five cuts, four
\* more than for the variability 0
C12_Witness ==
    /\ op = "plan" /\ settings.noise_type = "GABOR"
    /\ call.variability = FP \div 2 /\ call.base_subdivisions = 1
    /\ cuts = 5
    /\ determine_subdivisions(0, settings, 1) = 1

\* the shape and the values of a grid
IsConstant(g) == \A i \in DOMAIN g : \A j \in DOMAIN g[i] : g[i][j] = g[1][1]
AllZero(g) == \A i \in DOMAIN g : \A j \in DOMAIN g[i] : g[i][j] = 0
SameShape(g, h) ==
    Len(g) = Len(h) /\ \A i \in DOMAIN g : Len(g[i]) = Len(h[i])
HasShape(g, size_x, size_y) ==
    Len(g) = size_x /\ \A i \in DOMAIN g : Len(g[i]) = size_y

\* the sizes of the call are 1 at least
SizesValid == call.size_x >= 1 /\ call.size_y >= 1

\* the kernel of the call raises (only that of physics_export may)
CallKernelRaises ==
    /\ op \in {"pe_generate", "pe_generate_again"}
    /\ With(PE_get_noise_function(settings), LAMBDA nf :
         PE_KernelRaises(nf.func, PE_forwarded_kwargs(nf.params)))

\* what the kernel of the call returns at the sample points of the call, for
\* either operator
Sampled ==
    [i \in 1..call.size_x |-> [j \in 1..call.size_y |->
        IF op \in {"pe_generate", "pe_generate_again"}
        THEN With(PE_get_noise_function(settings), LAMBDA nf :
               PE_CallKernel(nf.func, Linspace(call.size_x)[i],
                             Linspace(call.size_y)[j], PE_forwarded_kwargs(nf.params)))
        ELSE With(get_noise_function(settings), LAMBDA nf :
               CallKernel(nf.func, Linspace(call.size_x)[i],
                          Linspace(call.size_y)[j], forwarded_kwargs(nf.params)))]]

\* C13: normalize_heightmap of either operator, given a grid of one value,
\* returns a grid of the same shape that is zero everywhere; and
\* generate_heightmap, given a kernel that has one value at all the sample
\* points, returns a grid that is zero everywhere, whatever the amplitude.
C13_ConstantGrid ==
    /\ (op \in {"normalize", "pe_normalize"} /\ IsConstant(call.grid))
          => /\ result = "RETURNED"
             /\ SameShape(heightmap, call.grid)
             /\ AllZero(heightmap)
    /\ (op \in {"generate", "pe_generate"} /\ SizesValid /\ ~CallKernelRaises
          /\ IsConstant(Sampled))
          => /\ result = "RETURNED"
             /\ HasShape(heightmap, call.size_x, call.size_y)
             /\ AllZero(heightmap)

\* a grid of 3 x 3 values, all 2.0, normalized to nine zeros
C13_Witness ==
    /\ op = "normalize"
    /\ call.grid = [i \in 1..3 |-> [j \in 1..3 |-> 2 * FP]]
    /\ heightmap = [i \in 1..3 |-> [j \in 1..3 |-> 0]]

\* C14: generate_heightmap of either operator, called with size_x < 1 or
\* size_y < 1, raises.
C14_FailsFast ==
    (op \in {"generate", "pe_generate"} /\ ~SizesValid) => result = "RAISED"

\* what the functions do instead: that of polyfem raises, and so does that of
\* physics_export for a size below 0; for a size of 0, and none below, that of
\* physics_export returns a grid without any value
C14_EmptyGrid ==
    /\ (op = "generate" /\ ~SizesValid) => result = "RAISED"
    /\ (op = "pe_generate" /\ (call.size_x < 0 \/ call.size_y < 0))
          => result = "RAISED"
    /\ (op = "pe_generate" /\ call.size_x >= 0 /\ call.size_y >= 0 /\ ~SizesValid)
          => /\ result = "RETURNED"
             /\ Len(heightmap) = call.size_x
             /\ Len(Flatten(heightmap)) = 0

SineGrid ==
    /\ op \in {"generate", "pe_generate"} /\ settings.noise_type = "SINE"
    /\ settings.amplitude = FP /\ call.size_x = 4 /\ call.size_y = 4

\* C16: in a heightmap of 4 x 4 values generated with the sine kernel and
\* the amplitude 1.0, row 0 and row 3 are equal value by value, the row being
\* the first index: heightmap[0, j] = heightmap[3, j] for every j.
C16_RowsEqual ==
    SineGrid => \A j \in 1..4 : heightmap[1][j] = heightmap[4][j]

\* what the generators return instead: the first index is the one u runs
\* with and the sine kernel takes u, so the values are the same along the
\* second index, heightmap[i, 0] = heightmap[i, 3] for every i, and row 0 and
\* row 3 differ in every place
C16_ColumnsEqual ==
    SineGrid => /\ \A i \in 1..4 : heightmap[i][1] = heightmap[i][4]
                /\ \A j \in 1..4 : heightmap[1][j] # heightmap[4][j]

PE_Steps == <<"generate", "subdivide", "generate", "sort", "displace">>
IsPrefix(w, s) == Len(w) <= Len(s) /\ \A k \in 1..Len(w) : w[k] = s[k]

\* the first heightmap of a run of the physics_export operator
PE_Preview ==
    With(PE_get_noise_function(settings), LAMBDA nf :
      PE_generate_heightmap(Max(10, Quot(20 * settings.amplitude, FP)),
                            Max(10, Quot(20 * settings.amplitude, FP)),
                            nf.func, settings.amplitude, nf.params))

\* the heightmap of the size of the subdivided face
PE_Final ==
    With(PE_get_noise_function(settings), LAMBDA nf :
      PE_generate_heightmap(calculate_grid_size(Len(face)).size,
                            calculate_grid_size(Len(face)).size,
                            nf.func, settings.amplitude, nf.params))

\* C18: a run of the physics_export operator goes through its steps in one
\* order - the checks of the selection and of the noise type, the first
\* heightmap, the cuts from its variability, the subdivision, the size of
\* the grid, the heightmap of that size, the displacement - and into a step
\* only when the steps before it have not failed; the heightmap it
\* displaces by is the one generated for the size of the subdivided face,
\* with as many values as the face has vertices.
C18_StepOrder ==
    op = "physics_export"
       => /\ IsPrefix(work, PE_Steps)
          /\ (selected # 1 \/ settings.noise_type \notin NoiseTypes)
                => (work = << >> /\ result = "CANCELLED")
          /\ Reported(reports, "ERROR") => (Len(reports) = 1 /\ result = "CANCELLED")
          /\ result = "FINISHED" => (work = PE_Steps /\ ~Reported(reports, "ERROR"))
          /\ Has(work, "subdivide")
                => With(PE_Preview, LAMBDA preview :
                     /\ ~preview.raised
                     /\ cuts = Max(1, determine_subdivisions(
                                         calculate_heightmap_variability(preview.heightmap),
                                         settings, 1)))
          /\ Len(work) > 2
                => /\ ~host_did.raises
                   /\ ~calculate_grid_size(Len(face)).raised
          /\ Has(work, "displace")
                => /\ SizeX * SizeY = Len(face)
                   /\ Len(grid_verts) = Len(face)
                   /\ heightmap = PE_Final.heightmap
                   /\ heightmap # PE_Preview.heightmap
          /\ result = "FINISHED"
                => \A k \in 1..Len(sorted_verts) :
                      disp[sorted_verts[k]] =
                         Displacement(StepNormal, PE_HeightAt(heightmap, SizeY, k))

\* a run that went through all the steps and displaced the four vertices of
\* the face by a heightmap of 2 x 2 values
C18_Witness ==
    /\ op = "physics_export" /\ result = "FINISHED" /\ work = PE_Steps
    /\ SizeX = 2 /\ SizeY = 2 /\ Len(sorted_verts) = 4 /\ ~NotMoved(disp)

\* C19: the vertices the polyfem operator collects from the subdivided face,
\* and the order it sorts them into, are those the tangent, the bitangent,
\* the origin and the edge lengths of the quad before the subdivision give:
\* of the face as it was when the run began.
C19_OriginalBasis ==
    [][(op = "none" /\ op' = "polyfem" /\ Has(work', "collect"))
         => /\ grid_verts' = get_subdivided_vertices(co', unit', face,
                                                    face_normal(co', face), cuts')
            /\ Has(work', "sort")
                  => sorted_verts' = sort_vertices_grid_order(co', grid_verts', cuts' + 1,
                                         cuts' + 1, face, face_normal(co', face))]_vars

\* what the operator does instead: it takes them from the face handle after
\* subdivide_edges has run, which is the quad where the host has left the
\* handle on it, and one cell of the grid where the host has cut the face the
\* handle names down to a cell
C19_HandleBasis ==
    [][(op = "none" /\ op' = "polyfem" /\ Has(work', "collect"))
         => /\ grid_verts' = get_subdivided_vertices(co', unit', face',
                                                    face_normal(co', face'), cuts')
            /\ Has(work', "sort")
                  => sorted_verts' = sort_vertices_grid_order(co', grid_verts', cuts' + 1,
                                         cuts' + 1, face', face_normal(co', face'))
            /\ host_did'.handle = "quad" => face' = face
            /\ host_did'.handle = "cell" => face' # face]_vars

\* scale_factor of determine_subdivisions as the claim has it
ScaleFactor(st) == IF st.noise_type = "GABOR" THEN 8 ELSE 5

\* C20: determine_subdivisions returns base_subdivisions +
\* round(scale_factor * variability), scale_factor being 8 for Gabor noise
\* and 5 for any other, and the cuts execute makes of it are 1 at least.
C20_RoundsToNearest ==
    op = "plan"
       => /\ determine_subdivisions(call.variability, settings, call.base_subdivisions)
                = call.base_subdivisions
                     + RoundHalfEven(ScaleFactor(settings) * call.variability, FP)
          /\ cuts >= 1

\* what the function does instead: int() cuts the fraction off, so the
\* result is base_subdivisions + floor(scale_factor * variability), one less
\* than the rounded value wherever the fraction is above one half; the cuts
\* are 1 at least
C20_Truncates ==
    op = "plan"
       => /\ determine_subdivisions(call.variability, settings, call.base_subdivisions)
                = call.base_subdivisions
                     + ((ScaleFactor(settings) * call.variability) \div FP)
          /\ cuts = Max(1, call.base_subdivisions
                              + ((ScaleFactor(settings) * call.variability) \div FP))
          /\ cuts >= 1
          /\ (2 * ((ScaleFactor(settings) * call.variability) % FP) > FP)
                => determine_subdivisions(call.variability, settings,
                                          call.base_subdivisions)
                      = call.base_subdivisions
                           + RoundHalfEven(ScaleFactor(settings) * call.variability, FP)
                           - 1

\* the cell of every vertex of bm.verts after the run, <<-1, -1>> for a vertex
\* that is no candidate
CandidateCells ==
    With(face_normal(co, face), LAMBDA N :
      [k \in 1..Len(co) |->
         IF IsPotential(co, unit, face, N, co[k])
         THEN GridCell(co, face, N, cuts, co[k]) ELSE <<-1, -1>>])

\* the places in the list of the returned vertices where the vertex of cell
\* <<i, j>> can stand: the list goes through the cells in their order and
\* leaves out the empty ones
PlacesOf(c) ==
    Max(1, c[1] * (cuts + 1) + c[2] + 1
             - ((cuts + 1) * (cuts + 1) - Len(grid_verts)))
       .. Min(Len(grid_verts), c[1] * (cuts + 1) + c[2] + 1)

\* C21: in get_subdivided_vertices every computed cell index lies in
\* 0..grid_cuts on both axes, and the vertices it returns are, cell by cell,
\* the first candidate in the order of bm.verts that rounds to the cell: a
\* later candidate of a filled cell is discarded and never replaces it.
C21_FirstWins ==
    (op = "polyfem" /\ Has(work, "collect"))
       => With(CandidateCells, LAMBDA cell :
            /\ \A k \in 1..Len(co) :
                 cell[k] # <<-1, -1>>
                    => /\ cell[k][1] \in 0..cuts /\ cell[k][2] \in 0..cuts
                       /\ \E g \in PlacesOf(cell[k]) :
                             /\ cell[grid_verts[g]] = cell[k]
                             /\ grid_verts[g] <= k
            /\ \A g \in 1..Len(grid_verts) : cell[grid_verts[g]] # <<-1, -1>>
            /\ \A g \in 1..(Len(grid_verts) - 1) :
                 cell[grid_verts[g]][1] * (cuts + 1) + cell[grid_verts[g]][2]
                    < cell[grid_verts[g + 1]][1] * (cuts + 1)
                         + cell[grid_verts[g + 1]][2])

\* a run in which a later candidate came to a cell an earlier one held, and
\* was discarded
C21_Witness ==
    /\ op = "polyfem" /\ Has(work, "collect")
    /\ With(CandidateCells, LAMBDA cell :
         \E k \in 1..Len(co) : \E g \in 1..Len(grid_verts) :
            /\ cell[k] # <<-1, -1>>
            /\ cell[grid_verts[g]] = cell[k]
            /\ grid_verts[g] < k)

(***************************************************************************)
(* RunPolyFemSimulationOperator of polyfem/operators/run_polyfem.py.       *)
(* execute and the timers run on the main thread, one after the other; a   *)
(* worker thread runs beside them.  A message is <<run, level, text>> as a *)
(* record, run being the worker that put it.  A tick of a timer is two     *)
(* steps, the loop that empties the queue and the look at the thread after *)
(* it: a worker may run between the two.                                   *)
(***************************************************************************)
Msg(level, text) == [level |-> level, text |-> text]

\* what run_polyfem_simulation puts on the queue before it returns: one ERROR
\* (the JSON input is no file, Docker fails, or another exception is raised),
\* or the messages of a run of Docker that succeeds, without and with output
\* on stderr
WorkerPlans ==
    {<<Msg("ERROR", "failed")>>,
     <<Msg("INFO", "docker output"), Msg("INFO", "completed")>>,
     <<Msg("INFO", "docker output"), Msg("WARNING", "docker warnings"),
       Msg("INFO", "completed")>>}

\* the main thread is not inside a tick
MainThreadFree == \A r \in 1..MaxRuns : sim_timers[r].state # "drained"

\* A faulty variant of already_running, for comparison: the thread is not
\* looked at.
already_running_unchecked(thread, workers) == FALSE

\* if RunPolyFemSimulationOperator._thread and
\*    RunPolyFemSimulationOperator._thread.is_alive()
already_running(thread, workers) == thread # 0 /\ workers[thread].alive

\* the threads started so far
Started == {r \in 1..MaxRuns : sim_timers[r].state # "none"}

SimExecuted(res, level, started) ==
    sim_exec' = [n |-> sim_exec.n + 1, result |-> res, level |-> level,
                 started |-> started]

\* RunPolyFemSimulationOperator.execute
SimExecute ==
    /\ MainThreadFree
    /\ sim_exec.n < MaxExecs
    /\ IF ~project_exists
       THEN /\ SimExecuted("CANCELLED", "ERROR", FALSE)
            /\ UNCHANGED <<sim_thread, sim_workers, sim_timers>>
       ELSE IF already_running(sim_thread, sim_workers)
       THEN /\ SimExecuted("CANCELLED", "WARNING", FALSE)
            /\ UNCHANGED <<sim_thread, sim_workers, sim_timers>>
       ELSE /\ Cardinality(Started) < MaxRuns
            /\ \E plan \in WorkerPlans :
                 With(Cardinality(Started) + 1, LAMBDA r :
                   /\ sim_thread' = r
                   /\ sim_workers' = [sim_workers EXCEPT
                                        ![r] = [alive |-> TRUE, todo |-> plan,
                                                put |-> << >>]]
                   /\ sim_timers' = [sim_timers EXCEPT ![r].state = "waiting"])
            /\ SimExecuted("FINISHED", "INFO", TRUE)
    /\ UNCHANGED <<project_exists, sim_report_queue, sim_reports, sim_popups>>
    /\ UNCHANGED <<heightmapVars, animVars, laterVars>>

\* the project directory is removed or made, or the setting is changed to a
\* path of the other kind; only execute looks at it
SetProject ==
    /\ sim_exec.n < MaxExecs
    /\ project_exists' = ~project_exists
    /\ UNCHANGED <<sim_thread, sim_workers, sim_report_queue, sim_timers,
                   sim_reports, sim_popups, sim_exec>>
    /\ UNCHANGED <<heightmapVars, animVars, laterVars>>

\* self.report_queue.put((level, message)) in run_polyfem_simulation
WorkerPut(r) ==
    /\ sim_workers[r].alive /\ sim_workers[r].todo # << >>
    /\ sim_report_queue' =
          Append(sim_report_queue,
                 [run |-> r, level |-> Head(sim_workers[r].todo).level,
                  text |-> Head(sim_workers[r].todo).text])
    /\ sim_workers' = [sim_workers EXCEPT
                         ![r].todo = Tail(@),
                         ![r].put = Append(@, Head(sim_workers[r].todo).level)]
    /\ UNCHANGED <<project_exists, sim_thread, sim_timers, sim_reports,
                   sim_popups, sim_exec>>
    /\ UNCHANGED <<heightmapVars, animVars, laterVars>>

\* run_polyfem_simulation returns and the thread ends
WorkerExit(r) ==
    /\ sim_workers[r].alive /\ sim_workers[r].todo = << >>
    /\ sim_workers' = [sim_workers EXCEPT ![r].alive = FALSE]
    /\ UNCHANGED <<project_exists, sim_thread, sim_report_queue, sim_timers,
                   sim_reports, sim_popups, sim_exec>>
    /\ UNCHANGED <<heightmapVars, animVars, laterVars>>

\* process_report_queue of the timer of run r, the loop: every message of the
\* queue is reported and kept in messages
TickDrain(r) ==
    /\ MainThreadFree
    /\ sim_timers[r].state = "waiting"
    /\ sim_timers' = [sim_timers EXCEPT
                        ![r] = [state |-> "drained", messages |-> sim_report_queue]]
    /\ sim_reports' = sim_reports \o
          [k \in 1..Len(sim_report_queue) |->
              [by |-> r, run |-> sim_report_queue[k].run,
               level |-> sim_report_queue[k].level,
               text |-> sim_report_queue[k].text]]
    /\ sim_report_queue' = << >>
    /\ UNCHANGED <<project_exists, sim_thread, sim_workers, sim_popups, sim_exec>>
    /\ UNCHANGED <<heightmapVars, animVars, laterVars>>

HasLevel(messages, level) == \E k \in 1..Len(messages) : messages[k].level = level

\* A faulty variant of final_popup, for comparison: the popup of a run with
\* errors is that of a success.
final_popup_success(by, messages) ==
    IF HasLevel(messages, "ERROR") \/ HasLevel(messages, "INFO")
    THEN <<[by |-> by, title |-> "Simulation Complete", icon |-> "INFO"]>>
    ELSE IF HasLevel(messages, "WARNING")
    THEN <<[by |-> by, title |-> "Simulation Complete", icon |-> "WARNING"]>>
    ELSE << >>

\* the popup process_report_queue schedules when the thread has ended, from
\* the messages of this tick
final_popup(by, messages) ==
    IF HasLevel(messages, "ERROR")
    THEN <<[by |-> by, title |-> "Simulation Failed", icon |-> "ERROR"]>>
    ELSE IF HasLevel(messages, "INFO")
    THEN <<[by |-> by, title |-> "Simulation Complete", icon |-> "INFO"]>>
    ELSE IF HasLevel(messages, "WARNING")
    THEN <<[by |-> by, title |-> "Simulation Complete", icon |-> "WARNING"]>>
    ELSE << >>

\* ... the rest: if not RunPolyFemSimulationOperator._thread.is_alive(), the
\* popup and return None; else return 0.1
TickDecide(r) ==
    /\ sim_timers[r].state = "drained"
    /\ IF ~sim_workers[sim_thread].alive
       THEN /\ sim_popups' = sim_popups \o final_popup(r, sim_timers[r].messages)
            /\ sim_timers' = [sim_timers EXCEPT ![r].state = "unregistered"]
       ELSE /\ sim_popups' = sim_popups
            /\ sim_timers' = [sim_timers EXCEPT
                                ![r] = [state |-> "waiting", messages |-> << >>]]
    /\ UNCHANGED <<project_exists, sim_thread, sim_workers, sim_report_queue,
                   sim_reports, sim_exec>>
    /\ UNCHANGED <<heightmapVars, animVars, laterVars>>

SimInit ==
    /\ project_exists \in BOOLEAN
    /\ SimOff
    /\ obj_type = "NONE" /\ mode = "OBJECT" /\ selected = 0 /\ face_valid = TRUE
    /\ settings = Settings("SINE", 2, FP, DefaultKnobs)
    /\ co = << >> /\ unit = 1 /\ disp = << >> /\ face = << >>
    /\ op = "none" /\ host_did = NoHost /\ result = "NONE" /\ reports = << >>
    /\ work = << >> /\ cuts = -1 /\ heightmap = << >> /\ noise_params = EmptyParams
    /\ kernel_args = EmptyParams /\ grid_verts = << >> /\ sorted_verts = << >>
    /\ call = NoCall /\ raise_at = "none"
    /\ AnimOff /\ LaterOff

Work(r) == WorkerPut(r) \/ WorkerExit(r)
Tick(r) == TickDrain(r) \/ TickDecide(r)

NextSim ==
    \/ SimExecute
    \/ SetProject
    \/ \E r \in 1..MaxRuns : WorkerPut(r)
    \/ \E r \in 1..MaxRuns : WorkerExit(r)
    \/ \E r \in 1..MaxRuns : TickDrain(r)
    \/ \E r \in 1..MaxRuns : TickDecide(r)

SpecSim == SimInit /\ [][NextSim]_vars

\* a thread that can take a step takes it, and a registered timer is called
\* again and again
SpecSimFair ==
    /\ SimInit /\ [][NextSim]_vars
    /\ \A r \in 1..MaxRuns : WF_vars(Work(r)) /\ WF_vars(Tick(r))

\* the worker threads that are alive
Alive(workers) == {r \in 1..MaxRuns : workers[r].alive}

\* the step is an execute of the simulation operator
IsSimExecute == sim_exec' # sim_exec

\* the execute of the step has started neither a thread nor a timer
NothingStarted ==
    /\ sim_thread' = sim_thread /\ sim_workers' = sim_workers
    /\ sim_timers' = sim_timers /\ sim_report_queue' = sim_report_queue

\* C22, with the case of the missing project directory set apart: at most one
\* simulation worker is alive at any time; an execute issued while a worker
\* is alive starts neither a thread nor a timer and returns CANCELLED, with a
\* WARNING when the project directory exists and with the ERROR of the
\* missing directory when it does not.
C22_OneWorker ==
    [][/\ Cardinality(Alive(sim_workers')) <= 1
       /\ (IsSimExecute /\ Alive(sim_workers) # {})
             => /\ NothingStarted
                /\ sim_exec'.result = "CANCELLED" /\ ~sim_exec'.started
                /\ sim_exec'.level = IF project_exists THEN "WARNING" ELSE "ERROR"]_vars

\* an execute was turned away with the WARNING while the worker of the first
\* was alive
C22_Witness ==
    /\ sim_exec.n = 2 /\ sim_exec.result = "CANCELLED" /\ sim_exec.level = "WARNING"
    /\ Alive(sim_workers) = {1}
    /\ sim_timers[2].state = "none"

\* C22 as stated: every execute issued while a worker is alive reports a
\* WARNING.
C22_AlwaysWarning ==
    [][(IsSimExecute /\ Alive(sim_workers) # {})
          => /\ NothingStarted
             /\ sim_exec'.result = "CANCELLED" /\ sim_exec'.level = "WARNING"]_vars

\* the worker of run r has ended
Ended(r) == sim_timers[r].state # "none" /\ ~sim_workers[r].alive
PutError(r) == \E k \in 1..Len(sim_workers[r].put) : sim_workers[r].put[k] = "ERROR"
Scheduled(title) == \E k \in 1..Len(sim_popups) : sim_popups[k].title = title

\* C23 as stated: for every interleaving of the worker with the ticks of the
\* timer, a run whose worker put an ERROR message leads to the 'Simulation
\* Failed' popup after the worker has ended, and a run whose worker put only
\* the messages of a success leads to the 'Simulation Complete' popup.
C23_PopupScheduled ==
    \A r \in 1..MaxRuns :
       /\ (Ended(r) /\ PutError(r)) ~> Scheduled("Simulation Failed")
       /\ (Ended(r) /\ ~PutError(r)) ~> Scheduled("Simulation Complete")

\* What holds instead: the timer of a run is unregistered in the end, and
\* the popup it schedules then is the one the messages of its last tick give,
\* none when that tick found the queue empty.
C23_TimerEnds ==
    \A r \in 1..MaxRuns :
       (sim_timers[r].state = "waiting") ~> (sim_timers[r].state = "unregistered")

\* a timer was unregistered without a popup after its worker had put an ERROR
C23_NoPopup ==
    /\ sim_timers[1].state = "unregistered" /\ PutError(1)
    /\ sim_timers[2].state = "none"
    /\ sim_popups = << >>

\* the levels of the messages of run r in a sequence of messages, in order
RECURSIVE LevelsOf(_, _)
LevelsOf(s, r) ==
    IF s = << >> THEN << >>
    ELSE (IF Head(s).run = r THEN <<Head(s).level>> ELSE << >>) \o LevelsOf(Tail(s), r)

\* C24 as stated: a message is reported by the timer of the run that put it,
\* and whenever process_report_queue returns None the queue is empty.
C24_OwnTimer ==
    [][/\ \A k \in 1..Len(sim_reports') : sim_reports'[k].by = sim_reports'[k].run
       /\ \A r \in 1..MaxRuns :
             (sim_timers[r].state = "drained" /\ sim_timers'[r].state = "unregistered")
                => sim_report_queue' = << >>]_vars

\* What holds instead: no message is reported twice or dropped; what a worker
\* has put is what has been reported of it, by whichever timer, followed by
\* what is still in the queue.
C24_Conserved ==
    \A r \in 1..MaxRuns :
       sim_workers[r].put = LevelsOf(sim_reports, r) \o LevelsOf(sim_report_queue, r)

\* every timer is unregistered and a message is left in the queue
C24_LeftOver ==
    /\ \A r \in 1..MaxRuns : sim_timers[r].state \in {"none", "unregistered"}
    /\ sim_report_queue # << >>

\* the timer of the second run has reported a message of the first
C24_OtherTimer ==
    \E k \in 1..Len(sim_reports) : sim_reports[k].by = 2 /\ sim_reports[k].run = 1

(***************************************************************************)
(* RenderPolyFemAnimationOperator of polyfem/operators/run_polyfem.py.     *)
(* execute, process_report_queue and import_next_obj run on the main       *)
(* thread; run_animation_process runs in a worker thread beside them.  The *)
(* VTU files of the project are step_1.vtu, step_2.vtu, ...; an entry of   *)
(* _obj_file_list is the step of the OBJ file, 0 where the conversion      *)
(* failed (None).  The messages of the report queue are left out: none of  *)
(* the class attributes depends on them.  The class body defines execute,  *)
(* process_report_queue and import_next_obj twice; the second definition   *)
(* of each replaces the first and is the one modelled.                     *)
(***************************************************************************)
\* the threads started so far
AnimStarted == {r \in 1..MaxRuns : anim_timers[r] # "none"}

AnimExecuted(res, reset) ==
    anim_exec' = [n |-> anim_exec.n + 1, result |-> res, reset |-> reset]

\* if RenderPolyFemAnimationOperator._thread and
\*    RenderPolyFemAnimationOperator._thread.is_alive()
render_running(thread, workers) == thread # 0 /\ workers[thread].alive

\* the main thread is not inside a tick of process_report_queue
AnimMainFree == \A r \in 1..MaxRuns : anim_timers[r] # "checked"

\* RenderPolyFemAnimationOperator.execute; the project it will work on holds
\* files VTU files, those of fails cannot be converted
AnimExecute ==
    /\ AnimMainFree
    /\ anim_exec.n < MaxExecs
    /\ IF render_running(anim_thread, anim_workers)
       THEN /\ AnimExecuted("CANCELLED", FALSE)
            /\ UNCHANGED <<anim_thread, anim_workers, obj_file_list,
                           current_import_index, import_in_progress,
                           total_imports, anim_timers>>
       ELSE /\ Cardinality(AnimStarted) < MaxRuns
            /\ obj_file_list' = << >>
            /\ current_import_index' = 0
            /\ import_in_progress' = FALSE
            /\ total_imports' = 0
            /\ \E files \in 0..MaxFiles : \E fails \in SUBSET (1..files) :
                 With(Cardinality(AnimStarted) + 1, LAMBDA r :
                   /\ anim_thread' = r
                   /\ anim_workers' = [anim_workers EXCEPT
                         ![r] = [alive |-> TRUE, pc |-> "start", files |-> files,
                                 fails |-> fails, converted |-> {}]]
                   /\ anim_timers' = [anim_timers EXCEPT ![r] = "registered"])
            /\ AnimExecuted("FINISHED", TRUE)
    /\ UNCHANGED <<project_exists, import_timers, imported, anim_popups>>
    /\ UNCHANGED <<heightmapVars, laterVars, sim_thread, sim_workers, sim_report_queue,
                   sim_timers, sim_reports, sim_popups, sim_exec>>

\* what a step of the worker leaves alone
WorkerLeaves ==
    /\ UNCHANGED <<project_exists, anim_thread, current_import_index,
                   import_in_progress, anim_timers, import_timers, imported,
                   anim_popups, anim_exec>>
    /\ UNCHANGED <<heightmapVars, laterVars, sim_thread, sim_workers, sim_report_queue,
                   sim_timers, sim_reports, sim_popups, sim_exec>>

\* run_animation_process as far as the conversions: the project directory
\* and the VTU files
AnimStart(r) ==
    /\ anim_workers[r].alive /\ anim_workers[r].pc = "start"
    /\ IF ~project_exists \/ anim_workers[r].files = 0
       THEN anim_workers' = [anim_workers EXCEPT ![r].alive = FALSE,
                                                 ![r].pc = "returned"]
       ELSE anim_workers' = [anim_workers EXCEPT ![r].pc = "convert"]
    /\ UNCHANGED <<obj_file_list, total_imports>>
    /\ WorkerLeaves

\* convert_vtu_wrapper for one file, in a thread of the pool: the files are
\* done in any order
AnimConvert(r) ==
    /\ anim_workers[r].alive /\ anim_workers[r].pc = "convert"
    /\ \E f \in (1..anim_workers[r].files) \ anim_workers[r].converted :
         anim_workers' = [anim_workers EXCEPT ![r].converted = @ \cup {f}]
    /\ UNCHANGED <<obj_file_list, total_imports>>
    /\ WorkerLeaves

\* obj_file_paths of the worker: the file of step f at index f - 1, None
\* where the conversion failed
obj_file_paths(w) == [k \in 1..w.files |-> IF k \in w.fails THEN 0 ELSE k]

\* RenderPolyFemAnimationOperator._obj_file_list = obj_file_paths
AnimStoreList(r) ==
    /\ anim_workers[r].alive /\ anim_workers[r].pc = "convert"
    /\ anim_workers[r].converted = 1..anim_workers[r].files
    /\ obj_file_list' = obj_file_paths(anim_workers[r])
    /\ anim_workers' = [anim_workers EXCEPT ![r].pc = "store_total"]
    /\ UNCHANGED total_imports
    /\ WorkerLeaves

\* RenderPolyFemAnimationOperator.total_imports = len(obj_file_paths)
AnimStoreTotal(r) ==
    /\ anim_workers[r].alive /\ anim_workers[r].pc = "store_total"
    /\ total_imports' = anim_workers[r].files
    /\ anim_workers' = [anim_workers EXCEPT ![r].pc = "finish"]
    /\ UNCHANGED obj_file_list
    /\ WorkerLeaves

\* the last messages (obj_file_paths is never empty here), and the thread
\* ends
AnimFinish(r) ==
    /\ anim_workers[r].alive /\ anim_workers[r].pc = "finish"
    /\ anim_workers' = [anim_workers EXCEPT ![r].alive = FALSE, ![r].pc = "returned"]
    /\ UNCHANGED <<obj_file_list, total_imports>>
    /\ WorkerLeaves

\* if _current_import_index < len(_obj_file_list)
imports_left(index, list) == index < Len(list)

\* process_report_queue of the timer of run r, as the class defines it the
\* second time (the definition that is in force), as far as the look at the
\* list: an import is started when entries are left and none is in
\* progress, and the timer goes on
AnimTick(r) ==
    /\ AnimMainFree
    /\ anim_timers[r] = "registered"
    /\ IF imports_left(current_import_index, obj_file_list)
       THEN /\ import_in_progress' = TRUE
            /\ import_timers' = IF import_in_progress THEN import_timers
                                ELSE import_timers + 1
            /\ UNCHANGED anim_timers
       ELSE /\ anim_timers' = [anim_timers EXCEPT ![r] = "checked"]
            /\ UNCHANGED <<import_in_progress, import_timers>>
    /\ UNCHANGED <<project_exists, anim_thread, anim_workers, obj_file_list,
                   current_import_index, total_imports, imported, anim_popups,
                   anim_exec>>
    /\ UNCHANGED <<heightmapVars, laterVars, sim_thread, sim_workers, sim_report_queue,
                   sim_timers, sim_reports, sim_popups, sim_exec>>

\* ... the rest, when no entry was left: the look at the thread, which the
\* worker may have changed since the look at the list.  The timer goes on
\* while the thread is alive, and shows the popup and returns None when it
\* is not.
AnimTickDecide(r) ==
    /\ anim_timers[r] = "checked"
    /\ IF anim_workers[anim_thread].alive
       THEN /\ anim_timers' = [anim_timers EXCEPT ![r] = "registered"]
            /\ UNCHANGED anim_popups
       ELSE /\ anim_popups' = anim_popups + 1
            /\ anim_timers' = [anim_timers EXCEPT ![r] = "unregistered"]
    /\ UNCHANGED <<project_exists, anim_thread, anim_workers, obj_file_list,
                   current_import_index, import_in_progress, total_imports,
                   import_timers, imported, anim_exec>>
    /\ UNCHANGED <<heightmapVars, laterVars, sim_thread, sim_workers, sim_report_queue,
                   sim_timers, sim_reports, sim_popups, sim_exec>>

\* what the import of an entry can come to: the progress is a division by
\* total_imports, a filepath of None is refused, and the host imports the
\* file or does not (an import that selects no object counts as failed)
ImportOutcomes(entry, total) ==
    IF total = 0 \/ entry = 0 THEN {"failed"} ELSE {"imported", "failed"}

\* import_next_obj, as the class defines it the second time
ImportTick ==
    /\ AnimMainFree
    /\ import_timers > 0
    /\ IF ~imports_left(current_import_index, obj_file_list)
       THEN /\ import_in_progress' = FALSE
            /\ import_timers' = import_timers - 1
            /\ UNCHANGED <<current_import_index, imported, anim_popups>>
       ELSE /\ \E outcome \in ImportOutcomes(obj_file_list[current_import_index + 1],
                                             total_imports) :
                 imported' = Append(imported,
                       [run |-> anim_thread, index |-> current_import_index,
                        entry |-> obj_file_list[current_import_index + 1],
                        outcome |-> outcome])
            /\ current_import_index' = current_import_index + 1
            /\ import_in_progress' = FALSE
            /\ UNCHANGED import_timers
    /\ UNCHANGED <<project_exists, anim_thread, anim_workers, obj_file_list,
                   total_imports, anim_timers, anim_popups, anim_exec>>
    /\ UNCHANGED <<heightmapVars, laterVars, sim_thread, sim_workers, sim_report_queue,
                   sim_timers, sim_reports, sim_popups, sim_exec>>

\* the heightmap operators have not been run
HeightmapIdle ==
    /\ obj_type = "NONE" /\ mode = "OBJECT" /\ selected = 0 /\ face_valid = TRUE
    /\ settings = Settings("SINE", 2, FP, DefaultKnobs)
    /\ co = << >> /\ unit = 1 /\ disp = << >> /\ face = << >>
    /\ op = "none" /\ host_did = NoHost /\ result = "NONE" /\ reports = << >>
    /\ work = << >> /\ cuts = -1 /\ heightmap = << >> /\ noise_params = EmptyParams
    /\ kernel_args = EmptyParams /\ grid_verts = << >> /\ sorted_verts = << >>
    /\ call = NoCall /\ raise_at = "none"

AnimInit ==
    /\ project_exists \in BOOLEAN
    /\ AnimOff /\ SimOff /\ HeightmapIdle /\ LaterOff

AnimWork(r) ==
    AnimStart(r) \/ AnimConvert(r) \/ AnimStoreList(r) \/ AnimStoreTotal(r)
       \/ AnimFinish(r)

NextAnim ==
    \/ AnimExecute
    \/ \E r \in 1..MaxRuns : AnimStart(r)
    \/ \E r \in 1..MaxRuns : AnimConvert(r)
    \/ \E r \in 1..MaxRuns : AnimStoreList(r)
    \/ \E r \in 1..MaxRuns : AnimStoreTotal(r)
    \/ \E r \in 1..MaxRuns : AnimFinish(r)
    \/ \E r \in 1..MaxRuns : AnimTick(r)
    \/ \E r \in 1..MaxRuns : AnimTickDecide(r)
    \/ ImportTick

SpecAnim == AnimInit /\ [][NextAnim]_vars

\* a thread that can take a step takes it, and a registered timer is called
\* again and again
SpecAnimFair ==
    /\ AnimInit /\ [][NextAnim]_vars
    /\ \A r \in 1..MaxRuns :
          WF_vars(AnimWork(r)) /\ WF_vars(AnimTick(r) \/ AnimTickDecide(r))
    /\ WF_vars(ImportTick)

\* the conversion thread of the run the class attributes belong to has ended
\* and has left a list that is not empty
ConversionDone ==
    /\ anim_thread # 0 /\ ~anim_workers[anim_thread].alive
    /\ obj_file_list # << >>

\* every entry of the list has been handed to import_next_obj
AllHanded == current_import_index = Len(obj_file_list)

\* C25 as stated, its liveness: once the conversion thread has ended with a
\* list that is not empty, every entry of the list is handed to
\* import_next_obj in the end, for every interleaving of the thread with the
\* ticks of the timers.
C25_AllImported == ConversionDone ~> AllHanded

\* C25 as stated, its safety: the timer of process_report_queue neither
\* unregisters nor shows the popup 'Animation Render Complete' before
\* _current_import_index has reached the length of the list.
C25_NotBeforeEnd ==
    [][(anim_popups' # anim_popups
          \/ \E r \in 1..MaxRuns : /\ anim_timers[r] # "unregistered"
                                   /\ anim_timers'[r] = "unregistered")
        => AllHanded]_vars

\* What holds of the claim, the order: the entries import_next_obj is handed
\* in a run are entries of the list of the run, each index once, in
\* ascending order from 0.
C25_InOrder ==
    /\ \A k \in 1..Len(imported) :
          imported[k].index =
             Cardinality({j \in 1..(k - 1) : imported[j].run = imported[k].run})
    /\ \A k \in 1..Len(imported) :
          imported[k].run = anim_thread
             => /\ imported[k].index < current_import_index
                /\ imported[k].entry = obj_file_list[imported[k].index + 1]

\* the conversion thread has ended with two files in the list, the popup
\* was shown, and no timer is left to import them
C25_Stuck ==
    /\ ConversionDone /\ Len(obj_file_list) = 2 /\ current_import_index = 0
    /\ import_timers = 0 /\ anim_popups = 1
    /\ \A r \in 1..MaxRuns : anim_timers[r] \in {"none", "unregistered"}
    /\ anim_exec.n = 1

\* both files of a list were imported, the first before the second
C25_Imported ==
    /\ Len(imported) = 2 /\ imported[1].entry = 1 /\ imported[2].entry = 2
    /\ imported[1].outcome = "imported" /\ imported[2].outcome = "imported"

\* the step is an execute of the animation operator
IsAnimExecute == anim_exec' # anim_exec

\* entries of the list are still to be imported, and a timer is registered
\* that will import them
ImportsPending ==
    /\ imports_left(current_import_index, obj_file_list)
    /\ \/ import_timers > 0
       \/ \E r \in 1..MaxRuns : anim_timers[r] = "registered"

\* C26 as stated: an execute issued while OBJ imports of a previous run are
\* still pending on the timers is rejected with CANCELLED and neither resets
\* nor restarts the import state.
C26_NoResetWhilePending ==
    [][(IsAnimExecute /\ ImportsPending)
          => /\ anim_exec'.result = "CANCELLED"
             /\ obj_file_list' = obj_file_list
             /\ current_import_index' = current_import_index
             /\ import_in_progress' = import_in_progress
             /\ total_imports' = total_imports]_vars

\* What holds instead: execute resets the import state exactly when the
\* conversion thread is not alive, whatever is pending on the timers, and is
\* rejected exactly when the thread is alive.
C26_ResetWhenThreadDead ==
    [][IsAnimExecute
          => IF render_running(anim_thread, anim_workers)
             THEN /\ anim_exec'.result = "CANCELLED"
                  /\ UNCHANGED <<obj_file_list, current_import_index,
                                 import_in_progress, total_imports, anim_thread>>
             ELSE /\ anim_exec'.result = "FINISHED"
                  /\ obj_file_list' = << >> /\ current_import_index' = 0
                  /\ import_in_progress' = FALSE /\ total_imports' = 0]_vars

\* an execute has reset the list of a run of two files of which one entry
\* was imported and the other was not, while the timer of that run was
\* registered
C26_Abandoned ==
    /\ anim_exec.n = 2 /\ anim_exec.reset /\ anim_thread = 2
    /\ anim_workers[1].files = 2
    /\ Len(imported) = 1 /\ imported[1].run = 1
    /\ anim_timers[1] = "registered" /\ anim_popups = 0
    /\ obj_file_list = << >>

(***************************************************************************)
(* RenderPolyFemAnimationOperator of physics_export/operators/             *)
(* run_polyfem.py.  execute runs on the main thread and waits for the      *)
(* conversions, which run in the threads of a pool.  A VTU file step_n.vtu *)
(* and its OBJ file are the number n.  render_in.settings is the property  *)
(* group behind scene.polyfem_settings: "polyfem" is PolyFemSettings of    *)
(* properties/polyfem.py, which the package registers and which has no     *)
(* frame_interval and no scale_factor; "polyfem_json" is PolyFemSettings   *)
(* of properties/polyfem_json.py, which has both.  render_in.import_ok is  *)
(* whether the host has the operator import_scene.obj; an import that      *)
(* works is taken to select one object.                                    *)
(***************************************************************************)
\* the steps a project directory can hold files of, and the start frames
StepNumbers == {1, 2, 10}
StartFrames == {0, 1}

\* vtu_files.sort(key=lambda x: int(x.split('_')[1].split('.')[0]))
SortedBySteps(dir) ==
    CHOOSE f \in [1..Cardinality(dir) -> dir] :
       \A i, j \in 1..Cardinality(dir) : i < j => f[i] < f[j]

\* execute, from its start to the submission of the conversions
RenderBegin ==
    /\ render.pc = "idle"
    /\ IF render_in.settings = "polyfem"
       THEN render' = [render EXCEPT !.pc = "done", !.result = "EXCEPTION"]
       ELSE IF ~project_exists \/ render_in.dir = {}
       THEN render' = [render EXCEPT !.pc = "done", !.result = "CANCELLED"]
       ELSE render' = [render EXCEPT !.pc = "converting",
                                     !.vtu_files = SortedBySteps(render_in.dir)]
    /\ UNCHANGED <<heightmapVars, simVars, animVars, render_in, modal, jsonVars>>

\* for future in as_completed(futures): the conversion of a file has
\* completed, whichever it is, and its path is appended when it is not None
RenderCompleted ==
    /\ render.pc = "converting"
    /\ \E vtu \in render_in.dir \ render.completed :
         render' = [render EXCEPT
            !.completed = @ \cup {vtu},
            !.obj_file_paths = IF vtu \in render_in.fails THEN @ ELSE Append(@, vtu)]
    /\ UNCHANGED <<heightmapVars, simVars, animVars, render_in, modal, jsonVars>>

\* imported_obj.name = f"Frame_{idx}" of the import loop, and frame =
\* start_frame + idx of setup_visibility_keyframes, for the paths in the
\* order of the list
setup_visibility_keyframes(paths, start_frame) ==
    [k \in 1..Len(paths) |->
        [name |-> k - 1, step |-> paths[k], frame |-> start_frame + (k - 1)]]

\* execute, from the end of the conversions to its return
RenderFinish ==
    /\ render.pc = "converting"
    /\ render.completed = render_in.dir
    /\ IF render.obj_file_paths = << >> \/ ~render_in.import_ok
       THEN render' = [render EXCEPT !.pc = "done", !.result = "CANCELLED"]
       ELSE render' = [render EXCEPT
              !.pc = "done", !.result = "FINISHED",
              !.frames = setup_visibility_keyframes(render.obj_file_paths,
                                                    render_in.start_frame)]
    /\ UNCHANGED <<heightmapVars, simVars, animVars, render_in, modal, jsonVars>>

RenderInit ==
    /\ project_exists \in BOOLEAN
    /\ render_in \in [settings : {"polyfem", "polyfem_json"},
                      dir : SUBSET StepNumbers, fails : SUBSET StepNumbers,
                      start_frame : StartFrames, import_ok : BOOLEAN]
    /\ render_in.fails \subseteq render_in.dir
    /\ render = NoRender /\ modal = NoModal /\ JsonOff
    /\ HeightmapIdle /\ SimOff /\ AnimOff

NextRender == RenderBegin \/ RenderCompleted \/ RenderFinish

SpecRender == RenderInit /\ [][NextRender]_vars

\* C27 as stated: the imported objects get the names Frame_idx and the
\* visible frame start_frame + idx in ascending order of the step numbers of
\* their VTU files, whatever the order in which the conversions complete.
C27_StepOrder ==
    render.result = "FINISHED"
       => \A k \in 1..Len(render.frames) :
             /\ render.frames[k].name = k - 1
             /\ render.frames[k].frame = render_in.start_frame + (k - 1)
             /\ \A j \in 1..(k - 1) : render.frames[j].step < render.frames[k].step

\* What holds instead: the names and the frames follow the order in which
\* the conversions completed; the objects are those of the conversions that
\* did not fail.
C27_CompletionOrder ==
    render.result = "FINISHED"
       => /\ Len(render.frames) = Len(render.obj_file_paths)
          /\ {render.frames[k].step : k \in 1..Len(render.frames)}
                = render_in.dir \ render_in.fails
          /\ \A k \in 1..Len(render.frames) :
                /\ render.frames[k].name = k - 1
                /\ render.frames[k].frame = render_in.start_frame + (k - 1)
                /\ render.frames[k].step = render.obj_file_paths[k]

\* the file of step 10 was converted first: it is Frame_0 at start_frame,
\* before the file of step 1
C27_OutOfOrder ==
    /\ render.result = "FINISHED" /\ Len(render.frames) = 3
    /\ render.frames[1].step = 10 /\ render.frames[2].step = 1
    /\ render.frames[3].step = 2 /\ render.frames[3].frame = render_in.start_frame + 2

(***************************************************************************)
(* ApplyHeightmapOperator.execute of polyfem/operators/heightmap.py with   *)
(* the host calls of its try block that no inner try block covers:         *)
(* mode_set (line 28), from_edit_mesh (line 31) and update_edit_mesh       *)
(* (lines 127 and 145).  Each of them may raise; the exception leaves the  *)
(* try block through the finally block and then execute.                   *)
(***************************************************************************)
RaisePoints ==
    {"none", "mode_set", "from_edit_mesh", "update_edit_mesh", "update_edit_mesh_final"}

\* obj.mode of a mesh object
ObjectModes == {"OBJECT", "EDIT", "SCULPT"}

\* the exception leaves execute: nothing is returned
Raised(o) == [o EXCEPT !.result = "EXCEPTION"]

\* update_edit_mesh of line 127 raises: the face was subdivided and its
\* vertices were collected and counted
execute_update_raises(c, pre, host) ==
    IF ~pre.ready \/ host.raises THEN execute_complete(c, pre, host)
    ELSE With(Subdivided(pre.o, host, pre.grid_cuts), LAMBDA o :
         With(get_subdivided_vertices(o.co, o.unit, o.face, face_normal(o.co, o.face),
                                      pre.grid_cuts),
              LAMBDA subdivided_verts :
           IF count_mismatch(subdivided_verts,
                             grid_size(pre.grid_cuts) * grid_size(pre.grid_cuts))
           THEN execute_complete(c, pre, host)
           ELSE Raised(restore_mode([o EXCEPT !.grid_verts = subdivided_verts,
                                              !.work = Append(@, "collect")],
                                    c.mode))))

\* update_edit_mesh of line 145 raises: the heightmap was applied
execute_final_raises(c, pre, host) ==
    IF ~pre.ready THEN execute_complete(c, pre, host)
    ELSE With(restore_mode(execute_subdivide(pre.o, host, pre.grid_cuts,
                                             grid_size(pre.grid_cuts)),
                           c.mode),
              LAMBDA o : IF o.result = "FINISHED" THEN Raised(o) ELSE o)

\* execute when the host call at raises, where the run comes to it
execute_host(c, host, at) ==
    IF c.obj_type # "MESH" \/ at = "none" THEN execute(c, host)
    ELSE IF at = "mode_set"
    THEN IF c.mode = "EDIT" THEN execute(c, host)
         ELSE Raised(restore_mode(Start(c), c.mode))
    ELSE IF at = "from_edit_mesh"
    THEN Raised(restore_mode([Start(c) EXCEPT !.mode = "EDIT"], c.mode))
    ELSE IF at = "update_edit_mesh"
    THEN execute_update_raises(c, execute_prepare(c), host)
    ELSE execute_final_raises(c, execute_prepare(c), host)

\* object.apply_heightmap of the polyfem add-on, run once on the scene, with
\* a host whose call at raises
ExecuteHost ==
    /\ op = "none"
    /\ \E at \in RaisePoints : \E host \in HostOutcomes :
         \E o \in {execute_host(Context, host, at)} :
            /\ op' = "polyfem" /\ host_did' = host /\ raise_at' = at
            /\ mode' = o.mode /\ co' = o.co /\ unit' = o.unit /\ disp' = o.disp
            /\ face' = o.face /\ result' = o.result /\ reports' = o.reports
            /\ work' = o.work /\ cuts' = o.cuts /\ heightmap' = o.heightmap
            /\ noise_params' = o.noise_params /\ kernel_args' = o.kernel_args
            /\ grid_verts' = o.grid_verts /\ sorted_verts' = o.sorted_verts
    /\ UNCHANGED <<obj_type, settings, selected, face_valid, call, otherVars>>

\* every mesh of the catalog in every mode
ModeScenes ==
    { <<m, Settings(nt, res, FP \div 2, DefaultKnobs), md>> :
        m \in DOMAIN MeshCatalog, nt \in {"SINE", "VORONOI"}, res \in 1..MaxRes,
        md \in ObjectModes }

ModeInit ==
    /\ \E sc \in ModeScenes :
         /\ obj_type = MeshCatalog[sc[1]].obj_type
         /\ co = MeshCatalog[sc[1]].co
         /\ unit = 1
         /\ disp = [k \in 1..Len(MeshCatalog[sc[1]].co) |-> Zero3]
         /\ selected = MeshCatalog[sc[1]].selected
         /\ face = MeshCatalog[sc[1]].face
         /\ face_valid = MeshCatalog[sc[1]].face_valid
         /\ settings = sc[2]
         /\ mode = sc[3]
    /\ Idle

NextMode == ExecuteHost

SpecMode == ModeInit /\ [][NextMode]_vars

\* C28: execute of the polyfem heightmap operator leaves the object in the
\* mode it had when execute was entered, on every exit after the check of
\* the active object: FINISHED, every CANCELLED return and an exception that
\* leaves the try block; on the early 'not a mesh' return nothing was done
\* at all, so the mode was never changed.
C28_ModeRestored ==
    [][op' = "polyfem"
         => /\ mode' = mode
            /\ obj_type # "MESH"
                 => /\ result' = "CANCELLED" /\ work' = << >>
                    /\ reports' = <<Rep("ERROR", "Active object is not a mesh.", << >>)>>
            /\ result' \in {"FINISHED", "CANCELLED", "EXCEPTION"}]_vars

\* update_edit_mesh raised after the face of an object in sculpt mode was
\* subdivided in edit mode, and the object is in sculpt mode again
C28_Witness ==
    /\ op = "polyfem" /\ result = "EXCEPTION" /\ raise_at = "update_edit_mesh"
    /\ mode = "SCULPT" /\ cuts > 0 /\ grid_verts # << >>

(***************************************************************************)
(* ConvertNormalToDisplacementOperator of polyfem/operators/               *)
(* convert_normal_to_displacement.py: execute, then the modal handler,     *)
(* which the window manager calls with every event, and cancel, which it   *)
(* calls when it ends the operator itself.                                  *)
(***************************************************************************)
\* _chunk_size = 100
chunk_size == 100

\* the heights of the normal maps
Heights == {1, 50, 100, 101, 150, 200, 201, 250, 300, 301}

\* what execute can find: no file, a file the host cannot load, an image
\* with fewer than three channels, an image it can work on
NormalMaps == {"no_file", "load_fails", "few_channels", "rgb"}

ModalLeaves == UNCHANGED <<heightmapVars, simVars, animVars, renderVars, jsonVars>>

\* execute
ConvertExecute ==
    /\ modal.state = "none"
    /\ \E normal_map \in NormalMaps : \E height \in Heights :
         IF normal_map # "rgb"
         THEN modal' = [modal EXCEPT !.state = "CANCELLED", !.outcome = normal_map]
         ELSE modal' = [modal EXCEPT
                 !.state = "RUNNING_MODAL", !.images = {"normal", "disp"},
                 !.total_rows = height, !.current_row = 0,
                 !.timer = TRUE, !.progress = TRUE]
    /\ ModalLeaves

\* wm.progress_end(); wm.event_timer_remove(self._timer)
end_modal(m) == [m EXCEPT !.progress = FALSE, !.timer = FALSE]

\* bpy.data.images.remove of both images
remove_images(m) == [m EXCEPT !.images = {}]

\* modal with a TIMER event; the host may raise in progress_update, and in
\* save when the last rows are done
ModalTimer ==
    /\ modal.state = "RUNNING_MODAL"
    /\ \E host \in {"ok", "progress_update_raises", "save_raises"} :
         With(Min(modal.current_row + chunk_size, modal.total_rows), LAMBDA end_row :
           IF host = "progress_update_raises"
           THEN modal' = [end_modal(modal) EXCEPT
                   !.state = "CANCELLED", !.outcome = "exception", !.event = "TIMER"]
           ELSE IF end_row >= modal.total_rows
           THEN IF host = "save_raises"
                THEN modal' = [end_modal(remove_images(modal)) EXCEPT
                        !.current_row = end_row, !.state = "CANCELLED",
                        !.outcome = "save_failed", !.event = "TIMER"]
                ELSE modal' = [end_modal(remove_images(modal)) EXCEPT
                        !.current_row = end_row, !.state = "FINISHED",
                        !.outcome = "saved", !.event = "TIMER"]
           ELSE modal' = [modal EXCEPT !.current_row = end_row, !.event = "TIMER"])
    /\ ModalLeaves

\* modal with an ESC event
ModalEsc ==
    /\ modal.state = "RUNNING_MODAL"
    /\ modal' = [end_modal(modal) EXCEPT
                   !.state = "CANCELLED", !.outcome = "esc", !.event = "ESC"]
    /\ ModalLeaves

\* modal with any other event: PASS_THROUGH
ModalPass ==
    /\ modal.state = "RUNNING_MODAL"
    /\ modal' = [modal EXCEPT !.event = "MOUSEMOVE"]
    /\ ModalLeaves

\* cancel
ModalCancel ==
    /\ modal.state = "RUNNING_MODAL"
    /\ modal' = [end_modal(modal) EXCEPT !.state = "CANCELLED", !.outcome = "cancel"]
    /\ ModalLeaves

ModalInit ==
    /\ project_exists = TRUE
    /\ modal = NoModal
    /\ HeightmapIdle /\ SimOff /\ AnimOff /\ RenderOff /\ JsonOff

NextModal == ConvertExecute \/ ModalTimer \/ ModalEsc \/ ModalPass \/ ModalCancel

SpecModal == ModalInit /\ [][NextModal]_vars

\* the modal state machine has come to one of its ends
Terminal == modal.outcome \in {"saved", "save_failed", "exception", "esc", "cancel"}

\* C29 as stated: every terminal outcome of the modal state machine (image
\* saved, save failed, unexpected exception during a TIMER event, ESC
\* pressed, cancel called) has removed the event timer, ended the progress
\* bar and removed both images from bpy.data.images.
C29_AllCleanedUp ==
    Terminal => ~modal.timer /\ ~modal.progress /\ modal.images = {}

\* What holds instead: every terminal outcome has removed the timer and
\* ended the progress bar; the images are removed exactly when the last rows
\* were done, that is when the image was saved or the saving failed.
C29_TimerAndProgress ==
    /\ Terminal => ~modal.timer /\ ~modal.progress
    /\ Terminal => (modal.images = {} <=> modal.outcome \in {"saved", "save_failed"})
    /\ modal.state = "RUNNING_MODAL"
          => modal.timer /\ modal.progress /\ modal.images = {"normal", "disp"}

\* ESC was pressed after the first hundred rows of a map of 250, and both
\* images are still in bpy.data.images
C29_LeftImages ==
    /\ modal.outcome = "esc" /\ modal.total_rows = 250 /\ modal.current_row = 100
    /\ modal.images = {"normal", "disp"} /\ ~modal.timer

(***************************************************************************)
(* PolyFEMApplyMaterial and CreatePolyFemJSONOperator of polyfem/          *)
(* operators/create_polyfem_json.py.  The scene holds the mesh objects     *)
(* 1..MaxObjects; the operators are run one after the other on the main    *)
(* thread.                                                                 *)
(***************************************************************************)
\* the values the user gives the material settings
MaterialTypes == {"NeoHookean", "LinearElasticity"}
YoungModuli == {1000, 1004}

JsonLeaves ==
    UNCHANGED <<heightmapVars, simVars, animVars, renderVars, modal>>

\* the user changes the material settings of the scene
ChangeSettings ==
    /\ json_data.n < MaxExecs
    /\ \E type \in MaterialTypes : \E E \in YoungModuli :
         /\ <<type, E>> # <<json_settings.type, json_settings.E>>
         /\ json_settings' = [json_settings EXCEPT !.type = type, !.E = E]
    /\ UNCHANGED <<json_objects, json_data>>
    /\ JsonLeaves

\* used_ids = [o.get("material_id", 0) for o in scene.objects if "material_id" in o]
\* next_id = max(used_ids, default=0) + 1
next_id(objs) ==
    With({objs[o].material_id : o \in {p \in DOMAIN objs : objs[p].applied}},
         LAMBDA used_ids :
           IF used_ids = {} THEN 1
           ELSE (CHOOSE i \in used_ids : \A j \in used_ids : j <= i) + 1)

\* PolyFEMApplyMaterial.execute on object o
ApplyMaterial(o) ==
    /\ json_data.n < MaxExecs
    /\ json_objects' = [json_objects EXCEPT ![o] =
          [applied |-> TRUE,
           material_id |-> IF json_objects[o].applied THEN json_objects[o].material_id
                           ELSE next_id(json_objects),
           type |-> json_settings.type, E |-> json_settings.E,
           nu |-> json_settings.nu, rho |-> json_settings.rho]]
    /\ json_objects'[o] # json_objects[o]
    /\ UNCHANGED <<json_settings, json_data>>
    /\ JsonLeaves

\* round(x, ndigits) on a value counted in a tenth of the last digit kept:
\* to the nearest multiple of ten, a tie to the even one
round(x) ==
    With(x \div 10, LAMBDA q :
    With(x % 10, LAMBDA r :
      IF r < 5 THEN 10 * q
      ELSE IF r > 5 THEN 10 * (q + 1)
      ELSE IF q % 2 = 0 THEN 10 * q ELSE 10 * (q + 1)))

\* material_data of create_json_data: obj.get(key, the value of the settings)
material_data(obj, st) ==
    [id |-> IF obj.applied THEN obj.material_id ELSE 0,
     type |-> IF obj.applied THEN obj.type ELSE st.type,
     E |-> round(IF obj.applied THEN obj.E ELSE st.E),
     nu |-> round(IF obj.applied THEN obj.nu ELSE st.nu),
     rho |-> round(IF obj.applied THEN obj.rho ELSE st.rho)]

material_tuple(md) == <<md.type, md.E, md.nu, md.rho>>

\* if material_tuple not in materials_map: the map holds the tuples of the
\* materials of the list
in_materials_map(materials_list, md) ==
    \E k \in 1..Len(materials_list) :
       material_tuple(materials_list[k]) = material_tuple(md)

\* obj_data of process_object as far as the material: None (a sequence of
\* no entry) when the export of the mesh failed
process_object(o, obj, failed) ==
    IF o \in failed THEN << >>
    ELSE <<[obj |-> o, volume_selection |-> IF obj.applied THEN obj.material_id ELSE 0,
            material |-> IF obj.applied THEN obj.material_id ELSE 0]>>

\* the loop of create_json_data over selected_objects, from the object at
\* position k on
RECURSIVE create_json_data(_, _, _, _, _, _)
create_json_data(selected_objects, k, objs, st, failed, acc) ==
    IF k > Len(selected_objects) THEN acc
    ELSE With(material_data(objs[selected_objects[k]], st), LAMBDA md :
           create_json_data(selected_objects, k + 1, objs, st, failed,
              [acc EXCEPT
                 !.materials = IF in_materials_map(@, md) THEN @ ELSE Append(@, md),
                 !.geometry = @ \o process_object(selected_objects[k],
                                                  objs[selected_objects[k]], failed)]))

\* the objects of a set in the order of the scene
RECURSIVE InOrder(_, _)
InOrder(S, o) ==
    IF o > MaxObjects THEN << >>
    ELSE (IF o \in S THEN <<o>> ELSE << >>) \o InOrder(S, o + 1)

\* CreatePolyFemJSONOperator.execute as far as json_data: with no object
\* selected every mesh of the scene is exported, unless export_selected_only
\* is set; the export of the meshes of failed fails
CreateJSON ==
    /\ json_data.n < MaxExecs
    /\ \E picked \in SUBSET (1..MaxObjects) : \E export_selected_only \in BOOLEAN :
       \E failed \in SUBSET (1..MaxObjects) :
         IF export_selected_only /\ picked = {}
         THEN json_data' = [NoJson EXCEPT !.n = json_data.n + 1, !.result = "CANCELLED"]
         ELSE json_data' =
                create_json_data(InOrder(IF picked = {} THEN 1..MaxObjects
                                         ELSE picked, 1),
                                 1, json_objects, json_settings, failed,
                                 [NoJson EXCEPT !.n = json_data.n + 1,
                                                !.result = "FINISHED"])
    /\ UNCHANGED <<json_settings, json_objects>>
    /\ JsonLeaves

JsonInit ==
    /\ project_exists = TRUE
    /\ JsonOff /\ RenderOff /\ modal = NoModal
    /\ HeightmapIdle /\ SimOff /\ AnimOff

NextJson ==
    \/ ChangeSettings
    \/ \E o \in 1..MaxObjects : ApplyMaterial(o)
    \/ CreateJSON

SpecJson == JsonInit /\ [][NextJson]_vars

\* C30 as stated: in the JSON data the 'material' id of every geometry entry
\* is the 'id' of some entry of the 'materials' list, for any assignment of
\* material ids and properties to the exported objects.
C30_IdsResolved ==
    \A g \in 1..Len(json_data.geometry) :
       \E m \in 1..Len(json_data.materials) :
          json_data.materials[m].id = json_data.geometry[g].material

\* What holds instead: the properties of the material of every geometry
\* entry, rounded, are those of some entry of the 'materials' list, and no
\* two entries of the list have the same properties.
C30_PropertiesResolved ==
    [][json_data' # json_data
        => /\ \A g \in 1..Len(json_data'.geometry) :
                \E m \in 1..Len(json_data'.materials) :
                   material_tuple(json_data'.materials[m])
                     = material_tuple(material_data(
                          json_objects[json_data'.geometry[g].obj], json_settings))
           /\ \A m, n \in 1..Len(json_data'.materials) :
                 material_tuple(json_data'.materials[m])
                    = material_tuple(json_data'.materials[n]) => m = n]_vars

\* two objects got the ids 1 and 2 with properties that are the same after
\* the rounding, and the 'materials' list has the id 1 only
C30_Dangling ==
    /\ json_data.result = "FINISHED"
    /\ Len(json_data.geometry) = 2 /\ Len(json_data.materials) = 1
    /\ json_data.geometry[1].material = 1 /\ json_data.geometry[2].material = 2
    /\ json_data.materials[1].id = 1
    /\ json_objects[1].E = 1000 /\ json_objects[2].E = 1004

=============================================================================
